---- MODULE Spec2Model ----
(***************************************************************************)
(* DumpSleuth: the dump parser (core/parser.py), its DumpData accessor and *)
(* the plugin orchestration of DumpAnalyzer (core/analyzer.py).            *)
(*                                                                         *)
(* Spec          one DumpAnalyzer: add_plugin, analyze (setup, then the    *)
(*               plugins sequentially or on the thread pool), return/raise *)
(* SpecAccessor  one open DumpData shared by reader threads                *)
(***************************************************************************)
EXTENDS Integers, Sequences, FiniteSets, TLC

\* ------------------------------------------------------------------ bounds
\* analysis.max_workers of the run (the configuration default is 4)
MaxWorkers == 2
\* reader threads sharing one DumpData, and the offsets/sizes they ask for
NumThreads == 2
MaxOffset == 3
MaxSize == 2
\* close() calls made on one DumpData
MaxCloses == 2
\* the length of the buffers scanned for strings, and string_min_length
MaxBufLen == 5
MaxMinLength == 3
\* the strings in one list handed to the categorizer
MaxStrings == 3
\* the pieces a text searched for URLs is made of
MaxPieces == 3
\* the pool tags in one file
MaxMarks == 2
\* the calls made on one PluginManager
MaxCalls == 4

\* -------------------------------------------------------------- exceptions
\* an exception is its class name and its message (str(error))
Exc(type, msg) == [type |-> type, msg |-> msg]
NoExc == Exc("none", "")

\* ------------------------------------------------------------ byte strings
Zeros(n) == [i \in 1..n |-> 0]

Min(a, b) == IF a < b THEN a ELSE b
Max(a, b) == IF a > b THEN a ELSE b

\* bytes.startswith
StartsWith(data, prefix) ==
    /\ Len(data) >= Len(prefix)
    /\ SubSeq(data, 1, Len(prefix)) = prefix

\* Python slice data[lo:hi] with lo, hi already clamped to 0..len
Slice(data, lo, hi) == IF lo < hi THEN SubSeq(data, lo + 1, hi) ELSE <<>>

\* Python's clamping of a slice index: negative counts from the end
ClampIndex(i, len) == IF i < 0 THEN Max(i + len, 0) ELSE Min(i, len)

\* ---------------------------------------------------------- DumpData.read
\* mutant: the slice is taken without the test for size == -1
MmapReadNoSentinel(data, offset, size) ==
    [err |-> NoExc,
     bytes |-> Slice(data, ClampIndex(offset, Len(data)),
                     ClampIndex(offset + size, Len(data)))]

\* mmap branch: mmap_handle[offset:] or mmap_handle[offset:offset + size]
MmapRead(data, offset, size) ==
    IF size = -1
    THEN [err |-> NoExc,
          bytes |-> Slice(data, ClampIndex(offset, Len(data)), Len(data))]
    ELSE [err |-> NoExc,
          bytes |-> Slice(data, ClampIndex(offset, Len(data)),
                          ClampIndex(offset + size, Len(data)))]

\* file_handle.seek(offset): the new position, or -1 when seek raises
FileSeek(offset) == IF offset < 0 THEN -1 ELSE offset

\* file_handle.read(size) at position pos
FileReadAt(data, pos, size) ==
    IF size < -1
    THEN [err |-> Exc("ValueError", "read length must be non-negative or -1"),
          bytes |-> <<>>, pos |-> pos]
    ELSE LET lo == Min(pos, Len(data))
             hi == IF size = -1 THEN Len(data) ELSE Min(pos + size, Len(data))
             got == Slice(data, lo, hi)
         IN [err |-> NoExc, bytes |-> got, pos |-> pos + Len(got)]

\* file branch when nothing else touches the handle: seek, then read
FileRead(data, offset, size) ==
    IF FileSeek(offset) < 0
    THEN [err |-> Exc("OSError", "Invalid argument"), bytes |-> <<>>]
    ELSE LET r == FileReadAt(data, FileSeek(offset), size)
         IN [err |-> r.err, bytes |-> r.bytes]

\* DumpData.read on a handle in state fh/mm ("none", "open", "closed")
Read(data, fh, mm, offset, size) ==
    IF mm = "closed"
    THEN [err |-> Exc("ValueError", "mmap closed or invalid"), bytes |-> <<>>]
    ELSE IF mm = "open" THEN MmapRead(data, offset, size)
    ELSE IF fh = "closed"
    THEN [err |-> Exc("ValueError", "seek of closed file"), bytes |-> <<>>]
    ELSE IF fh = "open" THEN FileRead(data, offset, size)
    ELSE [err |-> Exc("RuntimeError", "No data handle available"), bytes |-> <<>>]


\* ------------------------------------------------------------- DumpParser
MDMP == <<77, 68, 77, 80>>
PAGEDU64 == <<80, 65, 71, 69, 68, 85, 54, 52>>
PAGEDUMP == <<80, 65, 71, 69, 68, 85, 77, 80>>
HIBR == <<72, 73, 66, 82>>
EMF == <<69, 77, 70>>
ELFMAGIC == <<127, 69, 76, 70>>
MACHOMAGICS == {<<254, 237, 250, 206>>, <<206, 250, 237, 254>>,
                <<254, 237, 250, 207>>, <<207, 250, 237, 254>>}

\* DumpParser.SIGNATURES, in the dict's declared order
SIGNATURES ==
    << [sig |-> MDMP, fmt |-> "minidump"],
       [sig |-> PAGEDU64, fmt |-> "dmp64"],
       [sig |-> PAGEDUMP, fmt |-> "dmp32"],
       [sig |-> HIBR, fmt |-> "hibernation"],
       [sig |-> EMF, fmt |-> "vmware"] >>

\* mutant: the first four bytes are compared with every signature
detect_format_first4(data) ==
    LET hits == {i \in 1..Len(SIGNATURES) :
                    Slice(data, 0, Min(4, Len(data))) = SIGNATURES[i].sig}
    IN IF hits # {}
       THEN SIGNATURES[CHOOSE i \in hits : \A j \in hits : i <= j].fmt
       ELSE IF StartsWith(data, ELFMAGIC) THEN "elf_core"
       ELSE IF Slice(data, 0, Min(4, Len(data))) \in MACHOMAGICS THEN "macho_core"
       ELSE "None"

\* DumpParser.detect_format; "None" is Python's None
detect_format(data) ==
    LET hits == {i \in 1..Len(SIGNATURES) : StartsWith(data, SIGNATURES[i].sig)}
    IN IF hits # {}
       THEN SIGNATURES[CHOOSE i \in hits : \A j \in hits : i <= j].fmt
       ELSE IF StartsWith(data, ELFMAGIC) THEN "elf_core"
       ELSE IF Slice(data, 0, Min(4, Len(data))) \in MACHOMAGICS THEN "macho_core"
       ELSE "None"

\* struct.calcsize('<4sIIIIII')
MinidumpStructSize == 4 + 6 * 4

NoDetail == [dump_type |-> "none", arch |-> "none", endianness |-> "none",
             minidump_fields |-> FALSE]

\* _parse_minidump_header: the 32 bytes read are handed to struct.unpack,
\* which raises unless the buffer has exactly the format's size
parse_minidump_header(data, fh, mm) ==
    LET header_data == Read(data, fh, mm, 0, 32).bytes
    IN IF Len(header_data) < 32
       THEN [err |-> Exc("ValueError", "Invalid minidump header"),
             detail |-> NoDetail]
       ELSE IF Len(header_data) # MinidumpStructSize
            THEN [err |-> Exc("struct.error", "unpack requires a buffer of 28 bytes"),
                  detail |-> NoDetail]
       ELSE [err |-> NoExc,
             detail |-> [NoDetail EXCEPT !.minidump_fields = TRUE]]

\* _parse_windows_dump_header never raises
parse_windows_dump_header(data, fh, mm) ==
    [err |-> NoExc, detail |-> [NoDetail EXCEPT !.dump_type = "windows_full"]]

\* _parse_elf_header
parse_elf_header(data, fh, mm) ==
    LET header_data == Read(data, fh, mm, 0, 64).bytes
    IN IF Len(header_data) < 52
       THEN [err |-> Exc("ValueError", "Invalid ELF header"), detail |-> NoDetail]
       ELSE IF Slice(header_data, 0, 4) # ELFMAGIC
            THEN [err |-> Exc("ValueError", "Invalid ELF magic"), detail |-> NoDetail]
       ELSE [err |-> NoExc,
             detail |-> [NoDetail EXCEPT
                 !.arch = IF header_data[5] = 2 THEN "64-bit" ELSE "32-bit",
                 !.endianness = IF header_data[6] = 1 THEN "little" ELSE "big"]]

\* _parse_metadata
parse_metadata(data, fh, mm, format) ==
    IF format = "minidump" THEN parse_minidump_header(data, fh, mm)
    ELSE IF format \in {"dmp64", "dmp32"} THEN parse_windows_dump_header(data, fh, mm)
    ELSE IF format = "elf_core" THEN parse_elf_header(data, fh, mm)
    ELSE [err |-> NoExc, detail |-> NoDetail]


\* What the platform and the configuration do to one analyze() call:
\*   can_open      open(dump_file, 'rb') succeeds
\*   threshold_ok  analysis.mmap_threshold is a parsable size string
\*   want_mmap     analysis.use_mmap and file_size > mmap_threshold
\*   mmap_ok       mmap.mmap(...) succeeds
\*   read_ok       the header read of the opened file succeeds
\*   gen_closed    contextlib closes a generator that yields again after
\*                 throw() (newer CPython) instead of leaving it suspended
\*                 until it is garbage collected
\* A field that the other fields make irrelevant is kept TRUE, so that every
\* path is listed once.
NoFault ==
    [can_open |-> TRUE, threshold_ok |-> TRUE, want_mmap |-> TRUE,
     mmap_ok |-> TRUE, read_ok |-> TRUE, gen_closed |-> TRUE]
Envs ==
    {[NoFault EXCEPT !.can_open = FALSE],
     [NoFault EXCEPT !.threshold_ok = FALSE]}
    \cup {e \in {[NoFault EXCEPT !.want_mmap = w, !.mmap_ok = k,
                                  !.read_ok = r, !.gen_closed = g] :
                     w \in BOOLEAN, k \in BOOLEAN, r \in BOOLEAN,
                     g \in BOOLEAN} :
             (e.want_mmap \/ e.mmap_ok) /\ (e.read_ok => e.gen_closed)}

\* _open_dump from its try: to the first yield
open_dump(env) ==
    IF ~env.can_open
    THEN [err |-> Exc("PermissionError", "Permission denied"),
          fh |-> "none", mm |-> "none"]
    ELSE IF ~env.threshold_ok
    THEN [err |-> Exc("ValueError", "invalid literal for int()"),
          fh |-> "open", mm |-> "none"]
    ELSE [err |-> NoExc, fh |-> "open",
          mm |-> IF env.want_mmap /\ env.mmap_ok THEN "open" ELSE "none"]

\* the finally: clause of _open_dump, on the generator's own two locals
Closed(h) == IF h = "open" THEN "closed" ELSE h
CloseCalls(h) == IF h = "open" THEN 1 ELSE 0

NoMetadata ==
    [format |-> "absent", dump_type |-> "none", arch |-> "none",
     endianness |-> "none", minidump_fields |-> FALSE, file_size |-> -1]

MetadataOf(format, detail, size) ==
    [format |-> format, dump_type |-> detail.dump_type, arch |-> detail.arch,
     endianness |-> detail.endianness,
     minidump_fields |-> detail.minidump_fields, file_size |-> size]

GeneratorDidntStop == Exc("RuntimeError", "generator didn't stop after throw()")

\* the generator ran to its end (through finally:) and err propagates
ParseRaised(err, orig, o) ==
    [status |-> "raise", err |-> err, orig |-> orig, metadata |-> NoMetadata,
     fh |-> Closed(o.fh), mm |-> Closed(o.mm),
     fhCloses |-> CloseCalls(o.fh), mmCloses |-> CloseCalls(o.mm),
     suspended |-> FALSE]

\* the with block of parse() was left by return: the generator resumes after
\* its yield and runs finally: on the handles it opened
ParseReturned(metadata, o) ==
    [status |-> "ok", err |-> NoExc, orig |-> NoExc, metadata |-> metadata,
     fh |-> Closed(o.fh), mm |-> Closed(o.mm),
     fhCloses |-> CloseCalls(o.fh), mmCloses |-> CloseCalls(o.mm),
     suspended |-> FALSE]

\* mutant: the metadata error is re-raised whatever the mode
SwallowsNoMetadataError(recovery_mode) == FALSE

\* except Exception in parse(): a metadata error is swallowed in recovery mode
SwallowsMetadataError(recovery_mode) == recovery_mode

\* DumpParser.parse with _open_dump as its context manager
parse(data, recovery_mode, env) ==
    LET o == open_dump(env)
    IN IF o.err # NoExc
       THEN IF ~recovery_mode
            THEN ParseRaised(o.err, o.err, o)
            \* yield None, None; parse raises IOError, which is thrown into
            \* the generator at that second yield and leaves through finally:
            ELSE ParseRaised(Exc("OSError", "Failed to open dump file"), o.err, o)
       ELSE
       LET header == IF env.read_ok THEN Read(data, o.fh, o.mm, 0, 4096)
                     ELSE [err |-> Exc("OSError", "Input/output error"),
                           bytes |-> <<>>]
       IN IF header.err # NoExc
          THEN IF ~recovery_mode
               THEN ParseRaised(header.err, header.err, o)
               \* the error is thrown in at the first yield, the handler
               \* yields a second time: "generator didn't stop after throw()"
               ELSE IF env.gen_closed
               THEN ParseRaised(GeneratorDidntStop, header.err, o)
               ELSE [status |-> "raise", err |-> GeneratorDidntStop,
                     orig |-> header.err, metadata |-> NoMetadata,
                     fh |-> o.fh, mm |-> o.mm, fhCloses |-> 0, mmCloses |-> 0,
                     suspended |-> TRUE]
          ELSE
          LET dump_format == detect_format(header.bytes)
              md == parse_metadata(data, o.fh, o.mm, dump_format)
          IN IF dump_format = "None"
             THEN ParseReturned(MetadataOf("unknown", NoDetail, Len(data)), o)
             ELSE IF md.err # NoExc /\ ~SwallowsMetadataError(recovery_mode)
             THEN ParseRaised(md.err, md.err, o)
             ELSE ParseReturned(MetadataOf(dump_format, md.detail, Len(data)), o)


\* ------------------------------------------------------------ the plugins
Plugins == {"strings", "network", "registry"}

\* get_priority of the three extractors
get_priority(m) ==
    IF m = "strings" THEN 20 ELSE IF m = "registry" THEN 15 ELSE 10

\* what a plugin's analyze does with the DumpData it is given
Behaviours == {"returns", "raises", "reads"}

\* a plugin whose analyze neither returns nor raises; the runs of Spec leave
\* any call unfinished for as long as they like, SpecLive does not. For
\* termination a call that reads is a call that returns or raises.
Hangs == "hangs"
LiveBehaviours == {"returns", "raises", Hangs}

NoOutcome == [err |-> Exc("pending", ""), data |-> <<>>]

\* one call plugin.analyze(dump_data)
plugin_analyze(m, b, data, fh, mm) ==
    IF b = "returns" THEN [err |-> NoExc, data |-> <<m>>]
    ELSE IF b = "raises"
    THEN [err |-> Exc("Exception", "plugin failed"), data |-> <<>>]
    ELSE LET r == Read(data, fh, mm, 0, 4)
         IN IF r.err # NoExc THEN [err |-> r.err, data |-> <<>>]
            ELSE [err |-> NoExc, data |-> <<m>> \o r.bytes]

\* the dump files given to the analyzer
Pad(sig, n) == sig \o Zeros(n - Len(sig))
Dumps ==
    {Pad(MDMP, 8), Pad(MDMP, 64), Pad(ELFMAGIC, 40), Pad(ELFMAGIC, 64),
     Pad(PAGEDU64, 64), Pad(<<>>, 64)}

\* --------------------------------------------------------- AnalysisResult
Absent == <<>>
NoResults == [m \in Plugins |-> Absent]

\* mutant: the results map is replaced, not updated
add_result_replace(res, plugin_name, data) ==
    [NoResults EXCEPT ![plugin_name] = data]

\* AnalysisResult.add_result
add_result(res, plugin_name, data) == [res EXCEPT ![plugin_name] = data]

\* mutant: the errors list is assigned, not appended to
add_error_overwrite(errs, plugin_name, error) ==
    <<[plugin |-> plugin_name, error |-> error.msg, type |-> error.type]>>

\* AnalysisResult.add_error
add_error(errs, plugin_name, error) ==
    Append(errs, [plugin |-> plugin_name, error |-> error.msg,
                  type |-> error.type])

\* the classes derived from Exception among the errors of the model
ExceptionClasses ==
    {"Exception", "ValueError", "OSError", "RuntimeError", "PermissionError",
     "FileNotFoundError", "struct.error", "CorruptedDumpError"}

\* mutant: the handler names one exception class only
PluginBoundaryCatchesValueError(error) == error.type = "ValueError"

\* except Exception around plugin.analyze / future.result()
PluginBoundaryCatches(error) ==
    error.type \in ExceptionClasses

\* except CorruptedDumpError around parse and the plugin runs in analyze()
AnalyzeCatches(error) == error.type = "CorruptedDumpError"

\* ----------------------------------------------------------- DumpAnalyzer
VARIABLES
    registry,     \* plugin_manager.plugins: the names in insertion order
    behav,        \* what each plugin's analyze does
    pc,           \* "idle", "plugins", "returned", "raised"
    mode,         \* "sequential" or "parallel", of the current run
    recovery,     \* recovery_mode of the current run
    dump,         \* the bytes of the dump file of the current run
    fh, mm,       \* file handle and mapping of the run's DumpData
    io,           \* open()/mmap()/close() calls of the run, generator state
    setupErr,     \* the error that made the setup step fail, or "none"
    raisedErr,    \* the error analyze() raised to its caller, or "none"
    metadata,     \* results.metadata
    results,      \* results.results
    errors,       \* results.errors
    warnings,     \* results.warnings
    task,         \* per plugin: "none", "queued", "running", "finished", "collected"
    outcome,      \* per plugin: what its analyze call returned or raised
    callLog,      \* the plugins in the order their analyze was invoked
    \* one DumpData shared by reader threads (SpecAccessor)
    afile,        \* the bytes of the file behind the DumpData
    afh, amm,     \* its file_handle and mmap_handle: "none", "open", "closed"
    apos,         \* the file position of file_handle
    reader,       \* per thread: where its read(offset, size) call stands
    aclose,       \* the close() calls made on it so far, and what the last did
    \* one call of a function of the program on its own
    arg,          \* the arguments of the call
    ret           \* what the call returned or raised, once it has been made

mvars == <<registry, behav, pc, mode, recovery, dump, fh, mm, io, setupErr,
           raisedErr, metadata, results, errors, warnings, task, outcome,
           callLog>>
avars == <<afile, afh, amm, apos, reader, aclose>>
pvars == <<arg, ret>>
vars == <<mvars, avars, pvars>>

Threads == 1..NumThreads
IdleReader == [pc |-> "idle", offset |-> 0, size |-> 0, err |-> NoExc,
               bytes |-> <<>>]

NoClose == [calls |-> 0, err |-> NoExc]

NoIO == [opens |-> 0, mmaps |-> 0, fhCloses |-> 0, mmCloses |-> 0,
         suspended |-> FALSE]

Registered == {registry[i] : i \in 1..Len(registry)}

\* no DumpData is handed to reader threads
NoAccessor ==
    /\ afile = <<>>
    /\ afh = "none"
    /\ amm = "none"
    /\ apos = 0
    /\ reader = [t \in Threads |-> IdleReader]
    /\ aclose = NoClose

\* no function is called on its own
NoCall ==
    /\ arg = <<>>
    /\ ret = <<>>

Init ==
    /\ NoAccessor
    /\ NoCall
    /\ registry = <<>>
    /\ behav \in [Plugins -> Behaviours]
    /\ pc = "idle"
    /\ mode = "sequential"
    /\ recovery = FALSE
    /\ dump = <<>>
    /\ fh = "none"
    /\ mm = "none"
    /\ io = NoIO
    /\ setupErr = NoExc
    /\ raisedErr = NoExc
    /\ metadata = NoMetadata
    /\ results = NoResults
    /\ errors = <<>>
    /\ warnings = <<>>
    /\ task = [m \in Plugins |-> "none"]
    /\ outcome = [m \in Plugins |-> NoOutcome]
    /\ callLog = <<>>

\* add_plugin -> plugin_manager.plugins[name] = plugin, before the first run
AddPlugin(m) ==
    /\ pc = "idle"
    /\ registry' = IF m \in Registered THEN registry ELSE Append(registry, m)
    /\ UNCHANGED <<behav, pc, mode, recovery, dump, fh, mm, io, setupErr,
                   raisedErr, metadata, results, errors, warnings, task,
                   outcome, callLog>>
    /\ UNCHANGED <<avars, pvars>>


FirstWith(status) ==
    LET idx == {i \in 1..Len(registry) : task[registry[i]] = status}
    IN registry[CHOOSE i \in idx : \A j \in idx : i <= j]

Running == {m \in Plugins : task[m] = "running"}

\* mutant: the pool starts a thread for every submitted task
WorkerFreeAlways == TRUE

\* ThreadPoolExecutor(max_workers=max_workers): a submitted task is taken
\* only by one of the pool's max_workers threads, when that thread is idle
WorkerFree == Cardinality(Running) < MaxWorkers

\* DumpAnalyzer.analyze from its entry to the start of the plugin runs: the
\* fresh AnalysisResult, parser.parse and, in parallel mode, the submission
\* of every plugin to the thread pool
Analyze(parallel, recovery_mode, data, env) ==
    /\ pc = "idle"
    /\ recovery' = recovery_mode
    /\ dump' = data
    /\ callLog' = <<>>
    /\ outcome' = [m \in Plugins |-> NoOutcome]
    /\ LET o == open_dump(env)
           p == parse(data, recovery_mode, env)
           par == parallel /\ Len(registry) > 1
           caught == p.status = "raise" /\ AnalyzeCatches(p.err)
       IN /\ fh' = p.fh
          /\ mm' = p.mm
          /\ io' = [opens |-> IF o.fh = "none" THEN 0 ELSE 1,
                    mmaps |-> IF o.mm = "none" THEN 0 ELSE 1,
                    fhCloses |-> p.fhCloses, mmCloses |-> p.mmCloses,
                    suspended |-> p.suspended]
          /\ setupErr' = p.orig
          /\ mode' = IF par THEN "parallel" ELSE "sequential"
          /\ metadata' = IF p.status = "ok" THEN p.metadata
                         ELSE [NoMetadata EXCEPT !.file_size = Len(data)]
          /\ results' = NoResults
          /\ warnings' = <<>>
          /\ errors' = IF caught /\ recovery_mode
                       THEN add_error(<<>>, "parser", p.err) ELSE <<>>
          /\ pc' = IF p.status = "ok" THEN "plugins"
                   ELSE IF caught /\ recovery_mode THEN "returned"
                   ELSE "raised"
          /\ raisedErr' = IF p.status = "ok" \/ (caught /\ recovery_mode)
                          THEN NoExc ELSE p.err
          /\ task' = [m \in Plugins |->
                        IF p.status = "ok" /\ m \in Registered
                        THEN IF par THEN "queued" ELSE "waiting"
                        ELSE "none"]
    /\ UNCHANGED <<registry, behav>>
    /\ UNCHANGED <<avars, pvars>>

\* _run_plugins_sequential: the for loop calls the next plugin's analyze
SeqCall(m) ==
    /\ pc = "plugins"
    /\ mode = "sequential"
    /\ task[m] = "waiting"
    /\ m = FirstWith("waiting")
    /\ \A n \in Plugins : task[n] \notin {"running", "finished"}
    /\ task' = [task EXCEPT ![m] = "running"]
    /\ callLog' = Append(callLog, m)
    /\ UNCHANGED <<registry, behav, pc, mode, recovery, dump, fh, mm, io,
                   setupErr, raisedErr, metadata, results, errors, warnings,
                   outcome>>
    /\ UNCHANGED <<avars, pvars>>

\* _run_plugins_parallel: a free pool worker takes the oldest submitted task
WorkerStart(m) ==
    /\ pc = "plugins"
    /\ mode = "parallel"
    /\ task[m] = "queued"
    /\ m = FirstWith("queued")
    /\ WorkerFree
    /\ task' = [task EXCEPT ![m] = "running"]
    /\ callLog' = Append(callLog, m)
    /\ UNCHANGED <<registry, behav, pc, mode, recovery, dump, fh, mm, io,
                   setupErr, raisedErr, metadata, results, errors, warnings,
                   outcome>>
    /\ UNCHANGED <<avars, pvars>>

\* plugin.analyze(dump_data) runs to its return or its exception
PluginAnalyze(m) ==
    /\ pc = "plugins"
    /\ task[m] = "running"
    /\ behav[m] # Hangs
    /\ outcome' = [outcome EXCEPT ![m] = plugin_analyze(m, behav[m], dump, fh, mm)]
    /\ task' = [task EXCEPT ![m] = "finished"]
    /\ UNCHANGED <<registry, behav, pc, mode, recovery, dump, fh, mm, io,
                   setupErr, raisedErr, metadata, results, errors, warnings,
                   callLog>>
    /\ UNCHANGED <<avars, pvars>>

\* the try/except around plugin.analyze (sequential) or future.result()
\* (parallel, for the futures as_completed hands out)
Collect(m) ==
    /\ pc = "plugins"
    /\ task[m] = "finished"
    /\ task' = [task EXCEPT ![m] = "collected"]
    /\ IF outcome[m].err = NoExc
       THEN /\ results' = add_result(results, m, outcome[m].data)
            /\ UNCHANGED <<errors, pc, raisedErr>>
       ELSE IF PluginBoundaryCatches(outcome[m].err)
       THEN /\ errors' = add_error(errors, m, outcome[m].err)
            /\ UNCHANGED <<results, pc, raisedErr>>
       ELSE IF AnalyzeCatches(outcome[m].err) /\ recovery
       THEN /\ errors' = add_error(errors, "parser", outcome[m].err)
            /\ pc' = "returned"
            /\ UNCHANGED <<results, raisedErr>>
       ELSE /\ pc' = "raised"
            /\ raisedErr' = outcome[m].err
            /\ UNCHANGED <<results, errors>>
    /\ UNCHANGED <<registry, behav, mode, recovery, dump, fh, mm, io, setupErr,
                   metadata, warnings, outcome, callLog>>
    /\ UNCHANGED <<avars, pvars>>

\* mutant: the loop over the calls is left without waiting for them
AllHandledNoWait == TRUE

\* the for loop over the plugins (sequential) or over as_completed (parallel)
\* is exhausted: every call has ended and its outcome has been stored
AllHandled == \A m \in Registered : task[m] = "collected"

\* every plugin has been handled: analyze() returns self.results
Return ==
    /\ pc = "plugins"
    /\ AllHandled
    /\ pc' = "returned"
    /\ UNCHANGED <<registry, behav, mode, recovery, dump, fh, mm, io, setupErr,
                   raisedErr, metadata, results, errors, warnings, task,
                   outcome, callLog>>
    /\ UNCHANGED <<avars, pvars>>

\* the suspended _open_dump generator is finalised by the garbage collector:
\* GeneratorExit at its yield, then its finally: clause
CollectGarbage ==
    /\ io.suspended
    /\ fh' = Closed(fh)
    /\ mm' = Closed(mm)
    /\ io' = [io EXCEPT !.suspended = FALSE,
                        !.fhCloses = @ + CloseCalls(fh),
                        !.mmCloses = @ + CloseCalls(mm)]
    /\ UNCHANGED <<registry, behav, pc, mode, recovery, dump, setupErr,
                   raisedErr, metadata, results, errors, warnings, task,
                   outcome, callLog>>
    /\ UNCHANGED <<avars, pvars>>

Next ==
    \/ \E m \in Plugins : AddPlugin(m)
    \/ \E parallel \in BOOLEAN, recovery_mode \in BOOLEAN, data \in Dumps,
          env \in Envs :
            Analyze(parallel, recovery_mode, data, env)
    \/ \E m \in Plugins : SeqCall(m)
    \/ \E m \in Plugins : WorkerStart(m)
    \/ \E m \in Plugins : PluginAnalyze(m)
    \/ \E m \in Plugins : Collect(m)
    \/ Return
    \/ CollectGarbage

Spec == Init /\ [][Next]_vars

\* the same analyzer with plugins that may hang, under the scheduling the
\* code relies on: the main thread goes on with its loop and its return,
\* an idle pool thread takes the next queued task, and every thread that is
\* inside an analyze call that can finish gets to finish it
InitLive ==
    /\ NoAccessor
    /\ NoCall
    /\ registry = <<>>
    /\ behav \in [Plugins -> LiveBehaviours]
    /\ pc = "idle"
    /\ mode = "sequential"
    /\ recovery = FALSE
    /\ dump = <<>>
    /\ fh = "none"
    /\ mm = "none"
    /\ io = NoIO
    /\ setupErr = NoExc
    /\ raisedErr = NoExc
    /\ metadata = NoMetadata
    /\ results = NoResults
    /\ errors = <<>>
    /\ warnings = <<>>
    /\ task = [m \in Plugins |-> "none"]
    /\ outcome = [m \in Plugins |-> NoOutcome]
    /\ callLog = <<>>

Fairness ==
    /\ WF_vars(\E m \in Plugins : SeqCall(m))
    /\ WF_vars(\E m \in Plugins : WorkerStart(m))
    /\ \A m \in Plugins : WF_vars(PluginAnalyze(m))
    /\ WF_vars(\E m \in Plugins : Collect(m))
    /\ WF_vars(Return)

SpecLive == InitLive /\ [][Next]_vars /\ Fairness

TypeOK ==
    /\ pc \in {"idle", "plugins", "returned", "raised"}
    /\ fh \in {"none", "open", "closed"}
    /\ mm \in {"none", "open", "closed"}
    /\ \A m \in Plugins : task[m] \in {"none", "waiting", "queued", "running", "finished", "collected"}


\* --------------------------------------------- DumpData shared by threads
\* the file behind the shared DumpData
FileLen == 3
AccFile == [i \in 1..FileLen |-> 10 + i]

\* a DumpData over an open file, with or without a mapping, as _open_dump
\* yields the handles and parse() wraps them
\* no analyzer is at work
NoAnalyzer ==
    /\ registry = <<>>
    /\ behav = [m \in Plugins |-> "returns"]
    /\ pc = "idle"
    /\ mode = "sequential"
    /\ recovery = FALSE
    /\ dump = <<>>
    /\ fh = "none"
    /\ mm = "none"
    /\ io = NoIO
    /\ setupErr = NoExc
    /\ raisedErr = NoExc
    /\ metadata = NoMetadata
    /\ results = NoResults
    /\ errors = <<>>
    /\ warnings = <<>>
    /\ task = [m \in Plugins |-> "none"]
    /\ outcome = [m \in Plugins |-> NoOutcome]
    /\ callLog = <<>>

InitAccessor ==
    /\ afile = AccFile
    /\ afh = "open"
    /\ amm \in {"none", "open"}
    /\ apos = 0
    /\ reader = [t \in Threads |-> IdleReader]
    /\ aclose = NoClose
    /\ NoAnalyzer
    /\ NoCall

\* thread t enters DumpData.read(offset, size): with a mapping the slice is
\* the whole call; without one this step is file_handle.seek(offset)
ReadCall(t, offset, size) ==
    /\ reader[t].pc = "idle"
    /\ IF amm # "none" \/ afh # "open" \/ FileSeek(offset) < 0
       THEN LET r == Read(afile, afh, amm, offset, size)
            IN /\ reader' = [reader EXCEPT ![t] =
                     [pc |-> "done", offset |-> offset, size |-> size,
                      err |-> r.err, bytes |-> r.bytes]]
               /\ UNCHANGED apos
       ELSE /\ apos' = FileSeek(offset)
            /\ reader' = [reader EXCEPT ![t] =
                  [pc |-> "seeked", offset |-> offset, size |-> size,
                   err |-> NoExc, bytes |-> <<>>]]
    /\ UNCHANGED <<afile, afh, amm, aclose>>
    /\ UNCHANGED <<mvars, pvars>>

\* thread t goes on to file_handle.read(size), at the position the file
\* object has by now
ReadFinish(t) ==
    /\ reader[t].pc = "seeked"
    /\ LET r == IF afh = "open"
                THEN FileReadAt(afile, apos, reader[t].size)
                ELSE [err |-> Exc("ValueError", "read of closed file"),
                      bytes |-> <<>>, pos |-> apos]
       IN /\ apos' = r.pos
          /\ reader' = [reader EXCEPT ![t].pc = "done", ![t].err = r.err,
                                      ![t].bytes = r.bytes]
    /\ UNCHANGED <<afile, afh, amm, aclose>>
    /\ UNCHANGED <<mvars, pvars>>

\* read() returns to the plugin that called it
ReadReturn(t) ==
    /\ reader[t].pc = "done"
    /\ reader' = [reader EXCEPT ![t] = IdleReader]
    /\ UNCHANGED <<afile, afh, amm, apos, aclose>>
    /\ UNCHANGED <<mvars, pvars>>

\* DumpData.close on handles ("none", "open", "closed"): "if self.mmap_handle:" asks a
\* mapping for its length, which a closed mapping refuses; a file object,
\* open or closed, is true and its close() may be repeated
close(file_handle, mmap_handle) ==
    IF mmap_handle = "closed"
    THEN [err |-> Exc("ValueError", "mmap closed or invalid"),
          fh |-> file_handle, mm |-> mmap_handle]
    ELSE [err |-> NoExc, fh |-> Closed(file_handle),
          mm |-> Closed(mmap_handle)]

\* the owner of the DumpData calls close()
Close ==
    /\ aclose.calls < MaxCloses
    /\ LET c == close(afh, amm)
       IN /\ afh' = c.fh
          /\ amm' = c.mm
          /\ aclose' = [calls |-> aclose.calls + 1, err |-> c.err]
    /\ UNCHANGED <<afile, apos, reader>>
    /\ UNCHANGED <<mvars, pvars>>

\* the offsets and sizes the threads ask for, in range or not
Offsets == (0 - MaxOffset)..MaxOffset
Sizes == (0 - MaxSize)..MaxSize

NextAccessor ==
    \/ \E t \in Threads, offset \in Offsets, size \in Sizes :
          ReadCall(t, offset, size)
    \/ \E t \in Threads : ReadFinish(t)
    \/ \E t \in Threads : ReadReturn(t)
    \/ Close

SpecAccessor == InitAccessor /\ [][NextAccessor]_vars

\* ------------------------------------ one read(offset, size), both backends
\* the call has not been made
NotCalled == [done |-> FALSE]

\* the files read: every byte string of up to FileLen bytes over two values
ByteValues == {1, 2}
Files == UNION {[1..n -> ByteValues] : n \in 0..FileLen}

\* the handles _open_dump yields for a file above the mmap threshold with
\* use_mmap on (mmap.mmap refuses an empty file, the file object is then
\* used alone), and for a file below the threshold
MappedHandles(data) == open_dump([NoFault EXCEPT !.mmap_ok = Len(data) > 0])
BufferedHandles == open_dump([NoFault EXCEPT !.want_mmap = FALSE])

InitRead ==
    /\ arg \in [data : Files, offset : Offsets, size : Sizes]
    /\ ret = NotCalled
    /\ NoAnalyzer
    /\ NoAccessor

\* the same read(offset, size) on a fresh DumpData of either kind
ReadBoth ==
    /\ ~ret.done
    /\ LET m == MappedHandles(arg.data)
           b == BufferedHandles
       IN ret' = [done |-> TRUE,
                  mapped |-> m.mm = "open",
                  mm |-> Read(arg.data, m.fh, m.mm, arg.offset, arg.size),
                  buf |-> Read(arg.data, b.fh, b.mm, arg.offset, arg.size)]
    /\ UNCHANGED arg
    /\ UNCHANGED <<mvars, avars>>

NextRead == ReadBoth

SpecRead == InitRead /\ [][NextRead]_vars

\* ------------------------------------------- format detection of one file
\* the byte strings DumpParser knows as signatures
KnownMagics ==
    {SIGNATURES[i].sig : i \in 1..Len(SIGNATURES)} \cup {ELFMAGIC}
        \cup MACHOMAGICS

\* what follows the first bytes of a file
Tails == {<<>>, <<0>>, <<77, 68>>}

\* files that start with a signature, with part of one, or with neither
Headers ==
    {Slice(sig, 0, Min(n, Len(sig))) \o tail :
        sig \in KnownMagics, n \in 0..8, tail \in Tails}

InitDetect ==
    /\ arg \in [header : Headers, recovery_mode : BOOLEAN]
    /\ ret = NotCalled
    /\ NoAnalyzer
    /\ NoAccessor

\* parse() on the file: the header window is read, detect_format names the
\* format or None, metadata['format'] is set, then the header fields are
\* parsed
Detect ==
    /\ ~ret.done
    /\ LET o == BufferedHandles
           header == Read(arg.header, o.fh, o.mm, 0, 4096).bytes
           dump_format == detect_format(header)
           p == parse(arg.header, arg.recovery_mode, NoFault)
       IN ret' = [done |-> TRUE,
                  format |-> IF dump_format = "None" THEN "unknown"
                             ELSE dump_format,
                  status |-> p.status,
                  metadata |-> p.metadata]
    /\ UNCHANGED arg
    /\ UNCHANGED <<mvars, avars>>

NextDetect == Detect

SpecDetect == InitDetect /\ [][NextDetect]_vars

\* ------------------------------------------- DumpAnalyzer.get_dump_info
\* mutant: the whole path is reported as the file name
get_dump_info_path(path, data) ==
    LET o == BufferedHandles
        header == Read(data, o.fh, o.mm, 0, 4096).bytes
        dump_format == detect_format(header)
    IN [format |-> IF dump_format = "None" THEN "unknown" ELSE dump_format,
        file_name |-> path,
        file_size |-> Len(data)]

\* get_dump_info has callers and a test but no definition in the sources;
\* it is taken to be what its test and the specification say of it: the
\* format detected in the header window of the file, the base name of the
\* path and the size of the file, without a run of the plugins
get_dump_info(path, data) ==
    LET o == BufferedHandles
        header == Read(data, o.fh, o.mm, 0, 4096).bytes
        dump_format == detect_format(header)
    IN [format |-> IF dump_format = "None" THEN "unknown" ELSE dump_format,
        file_name |-> path[Len(path)],
        file_size |-> Len(data)]

\* the paths handed to DumpAnalyzer, as their components
Paths == {<<"sample.dmp">>, <<"tmp", "sample.dmp">>,
          <<"tmp", "dumps", "core.1">>}

InitInfo ==
    /\ arg \in [path : Paths, data : Headers \cup Dumps \cup {Pad(MDMP, 68)}]
    /\ ret = NotCalled
    /\ NoAnalyzer
    /\ NoAccessor

\* analyzer = DumpAnalyzer(path); info = analyzer.get_dump_info()
GetDumpInfo ==
    /\ ~ret.done
    /\ ret' = [done |-> TRUE, info |-> get_dump_info(arg.path, arg.data)]
    /\ UNCHANGED arg
    /\ UNCHANGED <<mvars, avars>>

NextInfo == GetDumpInfo

SpecInfo == InitInfo /\ [][NextInfo]_vars

\* ------------------------------------------------- DumpParser._parse_size
\* a size string is the sequence of its characters
Upper(c) ==
    CASE c = "b" -> "B" [] c = "k" -> "K" [] c = "m" -> "M" [] c = "g" -> "G"
      [] c = "t" -> "T" [] c = "x" -> "X" [] OTHER -> c

RECURSIVE Strip(_)
Strip(str) ==
    IF str = <<>> THEN <<>>
    ELSE IF Head(str) = " " THEN Strip(Tail(str))
    ELSE IF str[Len(str)] = " " THEN Strip(SubSeq(str, 1, Len(str) - 1))
    ELSE str

\* str.endswith
EndsWith(str, suffix) ==
    /\ Len(str) >= Len(suffix)
    /\ SubSeq(str, Len(str) - Len(suffix) + 1, Len(str)) = suffix

DigitValue ==
    [c \in {"0", "1", "2", "3", "4", "5", "6", "7", "8", "9"} |->
        CASE c = "0" -> 0 [] c = "1" -> 1 [] c = "2" -> 2 [] c = "3" -> 3
          [] c = "4" -> 4 [] c = "5" -> 5 [] c = "6" -> 6 [] c = "7" -> 7
          [] c = "8" -> 8 [] c = "9" -> 9]

\* float() and int() of a string of the alphabet used here (digits, blanks,
\* letters): blanks around the number are ignored, anything else than
\* digits is refused
IsNumber(str) ==
    /\ Strip(str) # <<>>
    /\ \A i \in 1..Len(Strip(str)) : Strip(str)[i] \in DOMAIN DigitValue

RECURSIVE DigitsValue(_)
DigitsValue(str) ==
    IF str = <<>> THEN 0
    ELSE 10 * DigitsValue(SubSeq(str, 1, Len(str) - 1))
            + DigitValue[str[Len(str)]]

NumberOf(str) == DigitsValue(Strip(str))

RECURSIVE TwoToThe(_)
TwoToThe(n) == IF n = 0 THEN 1 ELSE 2 * TwoToThe(n - 1)

\* the multipliers dict in its declared order; a multiplier is 2^shift
multipliers ==
    << [suffix |-> <<"B">>, shift |-> 0],
       [suffix |-> <<"K", "B">>, shift |-> 10],
       [suffix |-> <<"M", "B">>, shift |-> 20],
       [suffix |-> <<"G", "B">>, shift |-> 30],
       [suffix |-> <<"T", "B">>, shift |-> 40] >>

\* DumpParser._parse_size
parse_size(size_str) ==
    LET str == Strip([i \in 1..Len(size_str) |-> Upper(size_str[i])])
        hits == {i \in 1..Len(multipliers) : EndsWith(str, multipliers[i].suffix)}
    IN IF hits # {}
       THEN LET first == multipliers[CHOOSE i \in hits : \A j \in hits : i <= j]
                number == SubSeq(str, 1, Len(str) - Len(first.suffix))
            IN IF IsNumber(number)
               THEN [err |-> NoExc,
                     value |-> NumberOf(number) * TwoToThe(first.shift)]
               ELSE [err |-> Exc("ValueError", "could not convert string to float"),
                     value |-> 0]
       ELSE IF IsNumber(str)
            THEN [err |-> NoExc, value |-> NumberOf(str)]
            ELSE [err |-> Exc("ValueError", "invalid literal for int()"),
                  value |-> 0]

\* mutant: a dump as large as the maximum is refused too
parser_init_ge(file_size, max_file_size) ==
    LET max_size == parse_size(max_file_size)
    IN IF max_size.err # NoExc THEN max_size.err
       ELSE IF file_size >= max_size.value
       THEN Exc("ValueError", "Dump file too large")
       ELSE NoExc

\* DumpParser.__init__: the error it raises, or none
parser_init(file_size, max_file_size) ==
    LET max_size == parse_size(max_file_size)
    IN IF max_size.err # NoExc THEN max_size.err
       ELSE IF file_size > max_size.value
       THEN Exc("ValueError", "Dump file too large")
       ELSE NoExc

\* what _open_dump meets with this configuration on a readable file
SetupEnv(file_size, use_mmap, mmap_threshold) ==
    LET threshold == parse_size(mmap_threshold)
    IN [NoFault EXCEPT
          !.threshold_ok = threshold.err = NoExc,
          !.want_mmap = /\ threshold.err = NoExc
                        /\ use_mmap
                        /\ file_size > threshold.value]

\* analysis.max_file_size and analysis.mmap_threshold of the configuration
SizeStrings ==
    {<<"2", "G", "B">>, <<"1", "0", "0", "M", "B">>, <<"1", "K", "B">>,
     <<"1", "0", "B">>, <<"1", "0">>, <<"1", "2", " ", "b">>, <<" ", "7", " ">>,
     <<"0">>, <<>>, <<"B">>, <<"1", "x">>, <<"1", "k", "b">>}

\* the sizes of the dump files
FileSizes == {0, 7, 10, 11, 13}

NotConstructed == [done |-> FALSE, stage |-> "new", err |-> NoExc,
                   opened |-> FALSE, scanned |-> FALSE]

InitSetup ==
    /\ arg \in [file_size : FileSizes, max_file_size : SizeStrings,
                 mmap_threshold : SizeStrings, use_mmap : BOOLEAN,
                 recovery_mode : BOOLEAN]
    /\ ret = NotConstructed
    /\ NoAnalyzer
    /\ NoAccessor

\* DumpAnalyzer.__init__ builds its DumpParser
Construct ==
    /\ ret.stage = "new"
    /\ LET e == parser_init(arg.file_size, arg.max_file_size)
       IN ret' = [ret EXCEPT !.stage = IF e = NoExc THEN "constructed"
                                       ELSE "rejected",
                             !.done = e # NoExc,
                             !.err = e]
    /\ UNCHANGED arg
    /\ UNCHANGED <<mvars, avars>>

\* analyze() calls parser.parse(recovery_mode)
Setup ==
    /\ ret.stage = "constructed"
    /\ LET env == SetupEnv(arg.file_size, arg.use_mmap, arg.mmap_threshold)
           o == open_dump(env)
           p == parse(Zeros(arg.file_size), arg.recovery_mode, env)
       IN ret' = [done |-> TRUE,
                  stage |-> IF p.status = "ok" THEN "parsed" ELSE "raised",
                  err |-> p.err,
                  opened |-> o.fh # "none",
                  scanned |-> o.err = NoExc]
    /\ UNCHANGED arg
    /\ UNCHANGED <<mvars, avars>>

NextSetup ==
    \/ Construct
    \/ Setup

SpecSetup == InitSetup /\ [][NextSetup]_vars

\* ------------------------------------------- NetworkExtractor._classify_ip
\* ip.split("."): the pieces between the dots
RECURSIVE Split(_, _)
Split(str, piece) ==
    IF str = <<>> THEN <<piece>>
    ELSE IF Head(str) = "." THEN <<piece>> \o Split(Tail(str), <<>>)
    ELSE Split(Tail(str), Append(piece, Head(str)))

\* [int(x) for x in ip.split(".")]
OctetsOf(ip) ==
    LET pieces == Split(ip, <<>>)
    IN [i \in 1..Len(pieces) |-> DigitsValue(pieces[i])]

\* mutant: 224 itself is not taken for multicast
classify_ip_gt(ip) ==
    LET octets == OctetsOf(ip)
    IN IF octets[1] = 10 THEN "private_class_a"
       ELSE IF octets[1] = 172 /\ 16 <= octets[2] /\ octets[2] <= 31
       THEN "private_class_b"
       ELSE IF octets[1] = 192 /\ octets[2] = 168 THEN "private_class_c"
       ELSE IF octets[1] = 127 THEN "loopback"
       ELSE IF octets[1] > 224 THEN "multicast"
       ELSE "public"

\* NetworkExtractor._classify_ip
classify_ip(ip) ==
    LET octets == OctetsOf(ip)
    IN IF octets[1] = 10 THEN "private_class_a"
       ELSE IF octets[1] = 172 /\ 16 <= octets[2] /\ octets[2] <= 31
       THEN "private_class_b"
       ELSE IF octets[1] = 192 /\ octets[2] = 168 THEN "private_class_c"
       ELSE IF octets[1] = 127 THEN "loopback"
       ELSE IF octets[1] >= 224 THEN "multicast"
       ELSE "public"

\* the "Basic validation" of _extract_ips on a match of its pattern
ValidIp(ip) == \A i \in 1..Len(OctetsOf(ip)) :
                  0 <= OctetsOf(ip)[i] /\ OctetsOf(ip)[i] <= 255

\* the decimal digits of n, as the text of a dump has them
DigitChar(d) == <<"0", "1", "2", "3", "4", "5", "6", "7", "8", "9">>[d + 1]

RECURSIVE Decimal(_)
Decimal(n) ==
    IF n < 10 THEN <<DigitChar(n)>>
    ELSE Decimal(n \div 10) \o <<DigitChar(n % 10)>>

\* one to three digits: with or without leading zeros
Written(n, padded) ==
    IF ~padded THEN Decimal(n)
    ELSE IF n < 10 THEN <<"0", "0">> \o Decimal(n)
    ELSE IF n < 100 THEN <<"0">> \o Decimal(n)
    ELSE Decimal(n)

DottedQuad(o, padded) ==
    Written(o[1], padded) \o <<".">> \o Written(o[2], padded) \o <<".">>
        \o Written(o[3], padded) \o <<".">> \o Written(o[4], padded)

\* the numbers found in the four places of a match of the pattern
FirstOctets == {0, 8, 9, 10, 11, 126, 127, 128, 171, 172, 173, 191, 192, 193,
                223, 224, 225, 255, 256}
SecondOctets == {0, 8, 15, 16, 17, 31, 32, 167, 168, 169, 255, 999}
OtherOctets == {1, 5, 8}

InitClassify ==
    /\ arg \in [octets : {<<a, b, c, c>> : a \in FirstOctets,
                                          b \in SecondOctets,
                                          c \in OtherOctets},
                 padded : BOOLEAN]
    /\ ret = NotCalled
    /\ NoAnalyzer
    /\ NoAccessor

\* _extract_ips on one match of its pattern in the text
ExtractIp ==
    /\ ~ret.done
    /\ LET ip == DottedQuad(arg.octets, arg.padded)
       IN ret' = IF ValidIp(ip)
                 THEN [done |-> TRUE, found |-> TRUE, ip |-> ip,
                       type |-> classify_ip(ip)]
                 ELSE [done |-> TRUE, found |-> FALSE, ip |-> ip,
                       type |-> "none"]
    /\ UNCHANGED arg
    /\ UNCHANGED <<mvars, avars>>

NextClassify == ExtractIp

SpecClassify == InitClassify /\ [][NextClassify]_vars

\* --------------------------------------- StringExtractor: the two passes
\* mutant: the class of printable bytes reaches one byte further
PrintableTo7F(b) == 32 <= b /\ b <= 127

\* the character class [\x20-\x7E]
Printable(b) == 32 <= b /\ b <= 126

\* mutant: any byte may follow the printable byte of a wide character
UnitAtAnyHigh(buf, i, width) ==
    IF width = 1 THEN Printable(buf[i])
    ELSE i + 1 <= Len(buf) /\ Printable(buf[i])

\* what the pattern repeats, tried at position i: [\x20-\x7E] for the ASCII
\* pass (width 1), [\x20-\x7E]\x00 for the wide pass (width 2)
UnitAt(buf, i, width) ==
    IF width = 1 THEN Printable(buf[i])
    ELSE i + 1 <= Len(buf) /\ Printable(buf[i]) /\ buf[i + 1] = 0

\* the greedy {n,}: the number of units that follow each other from i on
RECURSIVE RunLen(_, _, _)
RunLen(buf, i, width) ==
    IF i > Len(buf) \/ ~UnitAt(buf, i, width) THEN 0
    ELSE 1 + RunLen(buf, i + width, width)

\* re.findall(pattern, data): the scan tries every position from the left,
\* takes the longest match there is at it and goes on behind the match
RECURSIVE FindAll(_, _, _, _)
FindAll(buf, i, min_length, width) ==
    IF i > Len(buf) THEN <<>>
    ELSE LET k == RunLen(buf, i, width)
         IN IF k >= min_length
            THEN <<[start |-> i, match |-> SubSeq(buf, i, i + k * width - 1)]>>
                     \o FindAll(buf, i + k * width, min_length, width)
            ELSE FindAll(buf, i + 1, min_length, width)

\* bytes.decode("ascii", errors="ignore"): the code points of the bytes
\* below 0x80, the others are dropped
DecodeAscii(bytes) == SelectSeq(bytes, LAMBDA b : b < 128)

\* bytes.decode("utf-16le", errors="ignore") of bytes without surrogates:
\* one code point per two bytes, low byte first; a odd last byte is dropped
DecodeUtf16le(bytes) ==
    [j \in 1..(Len(bytes) \div 2) |-> bytes[2 * j - 1] + 256 * bytes[2 * j]]

\* str.rstrip("\x00")
RECURSIVE RStripNul(_)
RStripNul(str) ==
    IF str = <<>> THEN <<>>
    ELSE IF str[Len(str)] = 0 THEN RStripNul(SubSeq(str, 1, Len(str) - 1))
    ELSE str

\* _extract_ascii_strings, each string with the place of its match
extract_ascii_strings(buf, min_length) ==
    LET found == FindAll(buf, 1, min_length, 1)
    IN [j \in 1..Len(found) |->
            [start |-> found[j].start, str |-> DecodeAscii(found[j].match)]]

\* _extract_unicode_strings, each string with the place of its match
extract_unicode_strings(buf, min_length) ==
    LET found == FindAll(buf, 1, min_length, 2)
        decoded == [j \in 1..Len(found) |->
                      [start |-> found[j].start,
                       str |-> RStripNul(DecodeUtf16le(found[j].match))]]
    IN SelectSeq(decoded, LAMBDA d : Len(d.str) >= min_length)

\* the bytes of the buffers: NUL, the four bytes at the two ends of the
\* printable range, a letter
ScanBytes == {0, 31, 32, 126, 127}
WideUnits == {<<65, 0>>, <<126, 0>>, <<0, 0>>, <<65>>, <<31, 0>>, <<65, 1>>}

RECURSIVE Concat(_)
Concat(seqs) == IF seqs = <<>> THEN <<>> ELSE Head(seqs) \o Concat(Tail(seqs))

Buffers ==
    UNION {[1..n -> ScanBytes] : n \in 0..MaxBufLen}
        \cup {Concat(u) : u \in UNION {[1..n -> WideUnits] : n \in 0..(MaxBufLen - 1)}}

InitStrings ==
    /\ arg \in [data : Buffers, min_length : 1..MaxMinLength]
    /\ ret = NotCalled
    /\ NoAnalyzer
    /\ NoAccessor

\* the two extraction passes of StringExtractor.analyze on one buffer
ExtractStrings ==
    /\ ~ret.done
    /\ ret' = [done |-> TRUE,
               ascii_strings |-> extract_ascii_strings(arg.data, arg.min_length),
               unicode_strings |-> extract_unicode_strings(arg.data, arg.min_length)]
    /\ UNCHANGED arg
    /\ UNCHANGED <<mvars, avars>>

NextStrings == ExtractStrings

SpecStrings == InitStrings /\ [][NextStrings]_vars

\* ------------------------------------ StringExtractor._categorize_strings
UpperLetters == <<"A", "B", "C", "D", "E", "F", "G", "H", "I", "J", "K", "L", "M", "N", "O", "P", "Q", "R", "S", "T", "U", "V", "W", "X", "Y", "Z">>
LowerLetters == <<"a", "b", "c", "d", "e", "f", "g", "h", "i", "j", "k", "l", "m", "n", "o", "p", "q", "r", "s", "t", "u", "v", "w", "x", "y", "z">>
Digits == <<"0", "1", "2", "3", "4", "5", "6", "7", "8", "9">>

\* re.IGNORECASE on ASCII text: the text is compared in lower case with
\* patterns written in lower case
LowerChar(c) ==
    IF \E k \in 1..Len(UpperLetters) : UpperLetters[k] = c
    THEN LowerLetters[CHOOSE k \in 1..Len(UpperLetters) : UpperLetters[k] = c]
    ELSE c

\* str.lower(), one half of the text after the other
RECURSIVE LowerCase(_)
LowerCase(str) ==
    IF str = <<>> THEN <<>>
    ELSE IF Len(str) = 1 THEN <<LowerChar(str[1])>>
    ELSE LowerCase(SubSeq(str, 1, Len(str) \div 2))
            \o LowerCase(SubSeq(str, Len(str) \div 2 + 1, Len(str)))

\* the character classes of the patterns
AlphaLower == {LowerLetters[k] : k \in 1..Len(LowerLetters)}
AlphaUpper == {UpperLetters[k] : k \in 1..Len(UpperLetters)}
DigitSet == {Digits[k] : k \in 1..Len(Digits)}
\* \w and \s
WordChars == AlphaLower \cup AlphaUpper \cup DigitSet \cup {"_"}
WhiteSpace == {" ", "\t", "\n", "\r", "\f"}
\* [^\s<>"\']  and  [^<>:"|?*\n\r]
UrlStop == WhiteSpace \cup {"<", ">", "\"", "'"}
PathStop == {"<", ">", ":", "\"", "|", "?", "*", "\n", "\r"}

\* a literal at position i
LitAt(str, i, lit) ==
    /\ i >= 1
    /\ i + Len(lit) - 1 <= Len(str)
    /\ SubSeq(str, i, i + Len(lit) - 1) = lit

\* one character of a class, or of its complement, at position i
InAt(str, i, class) == i \in 1..Len(str) /\ str[i] \in class
OutAt(str, i, class) == i \in 1..Len(str) /\ str[i] \notin class

\* class+ from position i up to, not including, position j
SomeIn(str, i, j, class) == i < j /\ \A q \in i..(j - 1) : InAt(str, q, class)
SomeOut(str, i, j, class) == i < j /\ \A q \in i..(j - 1) : OutAt(str, q, class)

Places(str) == 1..(Len(str) + 1)

\* re.search of  literal  in the text
Has(str, lit) == \E i \in Places(str) : LitAt(str, i, lit)

\* re.search of  literal [^stop]+
HasThenOut(str, lit, stop) ==
    \E i \in Places(str) : LitAt(str, i, lit) /\ OutAt(str, i + Len(lit), stop)

\* re.search of  literal \s+ (one of the words)
HasSpaceWord(str, lit, words) ==
    \E i, j \in Places(str) :
        /\ LitAt(str, i, lit)
        /\ SomeIn(str, i + Len(lit), j, WhiteSpace)
        /\ \E w \in words : LitAt(str, j, w)

\* re.search of  literal [:\s=]+ \S+
HasAssign(str, lit) ==
    \E i, j \in Places(str) :
        /\ LitAt(str, i, lit)
        /\ SomeIn(str, i + Len(lit), j, WhiteSpace \cup {":", "="})
        /\ OutAt(str, j, WhiteSpace)

\* the patterns of one category, tried on the text in lower case
urls_patterns(str) ==
    \/ HasThenOut(str, <<"h", "t", "t", "p", ":", "/", "/">>, UrlStop)
    \/ HasThenOut(str, <<"h", "t", "t", "p", "s", ":", "/", "/">>, UrlStop)
    \/ HasThenOut(str, <<"f", "t", "p", ":", "/", "/">>, UrlStop)
    \/ \E i \in Places(str) :
          /\ InAt(str, i, AlphaLower \cup DigitSet \cup {".", "-"})
          /\ LitAt(str, i + 1, <<".">>)
          /\ \/ \E tld \in {<<"c", "o", "m">>, <<"n", "e", "t">>, <<"o", "r", "g">>, <<"i", "o">>,
                            <<"g", "o", "v">>, <<"e", "d", "u">>, <<"m", "i", "l">>} : LitAt(str, i + 2, tld)
             \/ /\ LitAt(str, i + 2, <<"c", "o", ".">>)
                /\ InAt(str, i + 5, AlphaLower)
                /\ InAt(str, i + 6, AlphaLower)

file_paths_patterns(str) ==
    \/ \E i \in Places(str) :
          /\ InAt(str, i, AlphaLower)
          /\ LitAt(str, i + 1, <<":", "\\">>)
          /\ OutAt(str, i + 3, PathStop)
    \/ \E i, j \in Places(str) :
          /\ LitAt(str, i, <<"\\", "\\">>)
          /\ SomeOut(str, i + 2, j, {"\\"})
          /\ LitAt(str, j, <<"\\">>)
          /\ OutAt(str, j + 1, PathStop)
    \/ \E i, j \in Places(str) :
          /\ LitAt(str, i, <<"/">>)
          /\ SomeIn(str, i + 1, j, AlphaLower \cup DigitSet \cup {"/", "_", ".", "-"})
          /\ LitAt(str, j, <<".">>)
          /\ InAt(str, j + 1, AlphaLower \cup DigitSet)
    \/ \E i, j \in Places(str) :
          /\ LitAt(str, i, <<"%">>)
          /\ SomeIn(str, i + 1, j, AlphaLower)
          /\ LitAt(str, j, <<"%", "\\">>)
          /\ OutAt(str, j + 2, PathStop)

registry_keys_patterns(str) ==
    \/ \E i, j \in Places(str) :
          /\ LitAt(str, i, <<"h", "k", "e", "y", "_">>)
          /\ SomeIn(str, i + 5, j, AlphaLower \cup {"_"})
          /\ LitAt(str, j, <<"\\">>)
          /\ OutAt(str, j + 1, PathStop)
    \/ HasThenOut(str, <<"s", "o", "f", "t", "w", "a", "r", "e", "\\">>, PathStop)
    \/ HasThenOut(str, <<"s", "y", "s", "t", "e", "m", "\\">>, PathStop)

dll_names_patterns(str) ==
    \E i \in Places(str) :
        /\ InAt(str, i, WordChars)
        /\ \E ext \in {<<".", "d", "l", "l">>, <<".", "e", "x", "e">>, <<".", "s", "y", "s">>, <<".", "o", "c", "x">>} : LitAt(str, i + 1, ext)

error_messages_patterns(str) ==
    \E word \in {<<"e", "r", "r", "o", "r">>, <<"f", "a", "i", "l", "e", "d">>, <<"e", "x", "c", "e", "p", "t", "i", "o", "n">>, <<"a", "c", "c", "e", "s", "s", " ", "d", "e", "n", "i", "e", "d">>,
                 <<"p", "e", "r", "m", "i", "s", "s", "i", "o", "n">>, <<"n", "o", "t", " ", "f", "o", "u", "n", "d">>, <<"m", "i", "s", "s", "i", "n", "g">>, <<"i", "n", "v", "a", "l", "i", "d">>} :
        Has(str, word)

commands_patterns(str) ==
    \/ \E word \in {<<"p", "o", "w", "e", "r", "s", "h", "e", "l", "l">>, <<"c", "m", "d">>, <<"w", "m", "i", "c">>, <<"s", "c", "h", "t", "a", "s", "k", "s">>} : Has(str, word)
    \/ HasSpaceWord(str, <<"n", "e", "t">>, {<<"u", "s", "e">>, <<"u", "s", "e", "r">>, <<"s", "h", "a", "r", "e">>, <<"v", "i", "e", "w">>})
    \/ HasSpaceWord(str, <<"r", "e", "g">>, {<<"a", "d", "d">>, <<"d", "e", "l", "e", "t", "e">>, <<"q", "u", "e", "r", "y">>})
    \/ HasSpaceWord(str, <<"a", "t">>, {<<d>> : d \in DigitSet})

credentials_patterns(str) ==
    \/ \E word \in {<<"p", "a", "s", "s", "w", "o", "r", "d">>, <<"p", "w", "d">>, <<"u", "s", "e", "r">>, <<"u", "s", "e", "r", "n", "a", "m", "e">>,
                    <<"a", "p", "i", "k", "e", "y">>, <<"a", "p", "i", "_", "k", "e", "y">>, <<"a", "p", "i", "-", "k", "e", "y">>} : HasAssign(str, word)

\* the keys of the dict  patterns,  in the order they are written
PatternCategories ==
    <<"urls", "file_paths", "registry_keys", "dll_names", "error_messages",
      "commands", "credentials">>

\* the keys of the dict  categories
Categories ==
    {"urls", "file_paths", "registry_keys", "dll_names", "error_messages",
     "network_related", "security_related", "system_info", "commands",
     "credentials", "interesting"}

\* any(re.search(pattern, string, re.IGNORECASE) for pattern in pattern_list)
Matches(category, str) ==
    LET low == LowerCase(str)
    IN CASE category = "urls" -> urls_patterns(low)
         [] category = "file_paths" -> file_paths_patterns(low)
         [] category = "registry_keys" -> registry_keys_patterns(low)
         [] category = "dll_names" -> dll_names_patterns(low)
         [] category = "error_messages" -> error_messages_patterns(low)
         [] category = "commands" -> commands_patterns(low)
         [] category = "credentials" -> credentials_patterns(low)
         [] OTHER -> FALSE

Uncategorized == "uncategorized"

\* mutant: the last category with a matching pattern takes the string
last_category(str) ==
    LET hits == {k \in 1..Len(PatternCategories) : Matches(PatternCategories[k], str)}
    IN IF hits = {} THEN Uncategorized
       ELSE PatternCategories[CHOOSE k \in hits : \A h \in hits : h <= k]

\* the two nested loops with their breaks: the first category, in the order
\* of the dict, with a pattern that is found in the string
first_category(str) ==
    LET hits == {k \in 1..Len(PatternCategories) : Matches(PatternCategories[k], str)}
    IN IF hits = {} THEN Uncategorized
       ELSE PatternCategories[CHOOSE k \in hits : \A h \in hits : k <= h]

\* Shannon entropy above 4.5 bits: it is at most log2 of the number of
\* distinct characters, so never with fewer than 23 of them, and it is log2
\* of the length, so always from 23 characters on, when no character is
\* there twice; the strings of the model are of these two kinds
MinEntropyChars == 23
HighEntropy(str) ==
    /\ Cardinality({str[k] : k \in 1..Len(str)}) >= MinEntropyChars
    /\ Cardinality({str[k] : k \in 1..Len(str)}) = Len(str)

\* _is_interesting
is_interesting(str) ==
    \/ HighEntropy(str)
    \/ \E j \in Places(str) :
          /\ j >= 21
          /\ SomeIn(str, 1, j, AlphaLower \cup AlphaUpper \cup DigitSet \cup {"+", "/"})
          /\ Len(str) - j + 1 <= 2
          /\ \A q \in j..Len(str) : str[q] = "="
    \/ Len(str) >= 16 /\ \A q \in 1..Len(str) :
          InAt(str, q, DigitSet \cup {"a", "b", "c", "d", "e", "f",
                                      "A", "B", "C", "D", "E", "F"})
    \/ \E i \in Places(str) :
          SomeIn(str, i, i + 32, AlphaLower \cup AlphaUpper \cup DigitSet)

\* mutant: strings of four characters are passed over as well
SkippedBelow5(str) == Len(str) < 5

\* len(string) < 4: the string is passed over
Skipped(str) == Len(str) < 4

\* categories[category][:200]
CategoryCap == 200

\* the body of the loop over the strings, for the j-th string: loop is the
\* place in the list, the set processed and the dict categories
categorize_string(loop, str) ==
    LET category == first_category(str)
        next == [loop EXCEPT !.j = @ + 1]
    IN IF str \in loop.processed \/ Skipped(str) THEN next
       ELSE IF category # Uncategorized
       THEN [next EXCEPT !.processed = @ \cup {str},
                         !.categories[category] = Append(@, str)]
       ELSE IF Len(str) > 10 /\ is_interesting(str)
       THEN [next EXCEPT !.processed = @ \cup {str},
                         !.categories["interesting"] = Append(@, str)]
       ELSE [next EXCEPT !.processed = @ \cup {str}]

\* categories[category] = categories[category][:200], for every category
limit_results(categories) ==
    [c \in Categories |->
        Slice(categories[c], 0, Min(CategoryCap, Len(categories[c])))]

\* the strings handed to the categorizer
StringPool ==
    {<<"c", "m", "d">>, <<"C", "M", "D", ".", "E", "X", "E">>, <<"C", ":", "\\", "a", ".", "d", "l", "l">>, <<"E", "r", "r", "o", "r", ":", " ", "c", "m", "d">>,
     <<"p", "w", "d", "=", "x">>, <<"0", "1", "2", "3", "4", "5", "6", "7", "8", "9", "a", "b", "c", "d", "e", "f">>, <<"h", "e", "l", "l", "o", " ", "w", "o", "r", "l", "d">>, <<"a", ".", "c", "o", ".", "u", "k">>}

\* n different strings of the category commands
ManyCommands(n) == [k \in 1..n |-> <<"c", "m", "d">> \o Decimal(k)]

StringLists ==
    UNION {[1..n -> StringPool] : n \in 0..MaxStrings}
        \cup {ManyCommands(n) \o tail :
                n \in {CategoryCap - 1, CategoryCap, CategoryCap + 1},
                tail \in {<<>>, <<<<"a", ".", "s", "y", "s">>>>, <<<<"c", "m", "d", "9">>, <<"a", "t", " ", "7">>>>}}

InitCategorize ==
    /\ arg \in [strings : StringLists]
    /\ ret = [done |-> FALSE, j |-> 1, processed |-> {},
              categories |-> [c \in Categories |-> <<>>]]
    /\ NoAnalyzer
    /\ NoAccessor

\* _categorize_strings, one turn of its loop
CategorizeString ==
    /\ ~ret.done
    /\ ret.j <= Len(arg.strings)
    /\ ret' = categorize_string(ret, arg.strings[ret.j])
    /\ UNCHANGED arg
    /\ UNCHANGED <<mvars, avars>>

\* _categorize_strings, after the loop: the lists are cut and returned
CategorizeReturn ==
    /\ ~ret.done
    /\ ret.j > Len(arg.strings)
    /\ ret' = [ret EXCEPT !.done = TRUE, !.categories = limit_results(@)]
    /\ UNCHANGED arg
    /\ UNCHANGED <<mvars, avars>>

NextCategorize == CategorizeString \/ CategorizeReturn

SpecCategorize == InitCategorize /\ [][NextCategorize]_vars

\* ------------------------------------------------------- RegistryExtractor
\* a pattern of the extractor: a literal, compared without case, followed by
\* nothing ("none"), by a greedy run of one to  most  characters outside
\* the set  stop  ("out"), or by a run of characters of the set  stop  and a
\* second literal ("in")
Pattern(lit, tail, stop, most, lit2) ==
    [lit |-> lit, tail |-> tail, stop |-> stop, most |-> most, lit2 |-> lit2]

Unbounded == 1000000
Literal(lit) == Pattern(LowerCase(lit), "none", {}, 0, <<>>)
ThenOut(lit, stop, most) == Pattern(LowerCase(lit), "out", stop, most, <<>>)

\* where the run of characters outside  stop  (inside, for keep = TRUE)
\* that begins at s ends
RunEnd(str, s, stop, keep) ==
    CHOOSE e \in s..(Len(str) + 1) :
        /\ e = Len(str) + 1 \/ ((str[e] \in stop) # keep)
        /\ \A q \in s..(e - 1) : (str[q] \in stop) = keep

\* the place behind the match of the pattern at place i, 0 without a match
MatchEnd(str, low, i, pat) ==
    IF ~LitAt(low, i, pat.lit) THEN 0
    ELSE LET s == i + Len(pat.lit)
         IN CASE pat.tail = "none" -> s
              [] pat.tail = "out" ->
                    LET e == Min(RunEnd(str, s, pat.stop, FALSE), s + pat.most)
                    IN IF e > s THEN e ELSE 0
              [] pat.tail = "in" ->
                    LET e == RunEnd(low, s, pat.stop, TRUE)
                    IN IF e > s /\ LitAt(low, e, pat.lit2) THEN e + Len(pat.lit2)
                       ELSE 0

\* the alternative of the pattern, in written order, that matches at i
Alternative(str, low, i, pats) ==
    CHOOSE k \in 1..Len(pats) :
        /\ MatchEnd(str, low, i, pats[k]) > 0
        /\ \A h \in 1..(k - 1) : MatchEnd(str, low, i, pats[h]) = 0

\* re.finditer(pattern, text, re.IGNORECASE) from place  from  on: the
\* matches from the left, none overlapping another
RECURSIVE FindIter(_, _, _, _)
FindIter(str, low, pats, from) ==
    LET starts == {i \in from..Len(str) :
                      \E k \in 1..Len(pats) : MatchEnd(str, low, i, pats[k]) > 0}
    IN IF starts = {} THEN <<>>
       ELSE LET i == CHOOSE s \in starts : \A t \in starts : s <= t
                k == Alternative(str, low, i, pats)
                e == MatchEnd(str, low, i, pats[k])
            IN <<[start |-> i, stop |-> e, alt |-> k]>> \o FindIter(str, low, pats, e)

\* for pattern in patterns: for match in re.finditer(pattern, ...)
RECURSIVE FindEach(_, _, _)
FindEach(str, low, pats) ==
    IF pats = <<>> THEN <<>>
    ELSE FindIter(str, low, <<Head(pats)>>, 1) \o FindEach(str, low, Tail(pats))

\* list({entry[field]: entry for entry in entries}.values()): the keys in
\* the order of their first entry, each with its last entry
DedupBy(entries, Key(_)) ==
    LET places == [k \in 1..Len(entries) |-> k]
        firsts == SelectSeq(places,
                      LAMBDA k : \A h \in 1..(k - 1) : Key(entries[h]) # Key(entries[k]))
        last(k) == CHOOSE h \in k..Len(entries) :
                       /\ Key(entries[h]) = Key(entries[k])
                       /\ \A q \in (h + 1)..Len(entries) : Key(entries[q]) # Key(entries[k])
    IN [k \in 1..Len(firsts) |-> entries[last(firsts[k])]]

\* entries[:cap]
Capped(entries, cap) == Slice(entries, 0, Min(cap, Len(entries)))

\* text[start:stop] of a match
Matched(str, match) == SubSeq(str, match.start, match.stop - 1)

hives ==
    <<<<"H", "K", "E", "Y", "_", "L", "O", "C", "A", "L", "_", "M", "A", "C", "H", "I", "N", "E">>, <<"H", "K", "L", "M">>, <<"H", "K", "E", "Y", "_", "C", "U", "R", "R", "E", "N", "T", "_", "U", "S", "E", "R">>, <<"H", "K", "C", "U">>,
      <<"H", "K", "E", "Y", "_", "C", "L", "A", "S", "S", "E", "S", "_", "R", "O", "O", "T">>, <<"H", "K", "C", "R">>, <<"H", "K", "E", "Y", "_", "U", "S", "E", "R", "S">>, <<"H", "K", "U">>,
      <<"H", "K", "E", "Y", "_", "C", "U", "R", "R", "E", "N", "T", "_", "C", "O", "N", "F", "I", "G">>>>

RegistryKeyCap == 200
MaxKeyRun == 255

\* _extract_registry_keys
extract_registry_keys(str) ==
    LET pats == [k \in 1..Len(hives) |-> ThenOut(hives[k] \o <<"\\">>, PathStop, MaxKeyRun)]
        found == FindIter(str, LowerCase(str), pats, 1)
        keys == [k \in 1..Len(found) |->
                    [path |-> Matched(str, found[k]),
                     hive |-> SubSeq(str, found[k].start,
                                     found[k].start + Len(hives[found[k].alt]) - 1),
                     offset |-> found[k].start - 1]]
    IN Capped(DedupBy(keys, LAMBDA entry : entry.path), RegistryKeyCap)

run_patterns ==
    <<ThenOut(<<"S", "o", "f", "t", "w", "a", "r", "e", "\\", "M", "i", "c", "r", "o", "s", "o", "f", "t", "\\", "W", "i", "n", "d", "o", "w", "s", "\\", "C", "u", "r", "r", "e", "n", "t", "V", "e", "r", "s", "i", "o", "n", "\\", "R", "u", "n", "\\">>, {"\\"}, Unbounded),
      ThenOut(<<"S", "o", "f", "t", "w", "a", "r", "e", "\\", "M", "i", "c", "r", "o", "s", "o", "f", "t", "\\", "W", "i", "n", "d", "o", "w", "s", "\\", "C", "u", "r", "r", "e", "n", "t", "V", "e", "r", "s", "i", "o", "n", "\\", "R", "u", "n", "O", "n", "c", "e", "\\">>, {"\\"}, Unbounded),
      ThenOut(<<"S", "o", "f", "t", "w", "a", "r", "e", "\\", "M", "i", "c", "r", "o", "s", "o", "f", "t", "\\", "W", "i", "n", "d", "o", "w", "s", "\\", "C", "u", "r", "r", "e", "n", "t", "V", "e", "r", "s", "i", "o", "n", "\\", "R", "u", "n", "S", "e", "r", "v", "i", "c", "e", "s", "\\">>, {"\\"}, Unbounded),
      ThenOut(<<"S", "o", "f", "t", "w", "a", "r", "e", "\\", "W", "o", "w", "6", "4", "3", "2", "N", "o", "d", "e", "\\", "M", "i", "c", "r", "o", "s", "o", "f", "t", "\\", "W", "i", "n", "d", "o", "w", "s", "\\", "C", "u", "r", "r", "e", "n", "t", "V", "e", "r", "s", "i", "o", "n", "\\", "R", "u", "n", "\\">>, {"\\"}, Unbounded)>>

\* the letters that may follow a backslash in a pattern of the re module
EscapeLetters ==
    {"A", "b", "B", "d", "D", "s", "S", "w", "W", "Z", "a", "f", "n", "r", "t",
     "v", "x", "u", "U", "N"}

\* re.compile of a text used as a pattern raises re.error, bad escape, for
\* a backslash followed by any other ASCII letter
BadEscape(str) ==
    \E i \in 1..(Len(str) - 1) :
        /\ str[i] = "\\"
        /\ \A q \in 1..(i - 1) : str[q] # "\\"
        /\ str[i + 1] \in (AlphaLower \cup AlphaUpper) \ EscapeLetters

RunKeyCap == 100

\* _extract_run_keys: the matched key is used, as it is, as the pattern of
\* the search for its value; a key without a bad escape in front (there is
\* none: every key begins Software\M...) would get the value "Unknown" or
\* the text behind its equals sign, which is not modelled further
extract_run_keys(str) ==
    LET found == FindEach(str, LowerCase(str), run_patterns)
    IN IF found # <<>> /\ BadEscape(Matched(str, found[1]))
       THEN [err |-> Exc("error", "bad escape"), value |-> <<>>]
       ELSE [err |-> NoExc,
             value |-> Capped([k \in 1..Len(found) |->
                                  [key |-> Matched(str, found[k]),
                                   type |-> "startup",
                                   offset |-> found[k].start - 1]], RunKeyCap)]

service_pattern == ThenOut(<<"S", "Y", "S", "T", "E", "M", "\\", "C", "u", "r", "r", "e", "n", "t", "C", "o", "n", "t", "r", "o", "l", "S", "e", "t", "\\", "S", "e", "r", "v", "i", "c", "e", "s", "\\">>, {"\\"}, Unbounded)
ServiceCap == 100

\* _extract_services
extract_services(str) ==
    LET found == FindIter(str, LowerCase(str), <<service_pattern>>, 1)
        services == [k \in 1..Len(found) |->
                        [name |-> SubSeq(str, found[k].start + Len(service_pattern.lit),
                                         found[k].stop - 1),
                         path |-> Matched(str, found[k]),
                         offset |-> found[k].start - 1]]
    IN Capped(DedupBy(services, LAMBDA entry : entry.name), ServiceCap)

assoc_pattern ==
    Pattern(<<"\\", ".">>, "in", AlphaLower \cup DigitSet, Unbounded, <<"\\", "s", "h", "e", "l", "l", "\\", "o", "p", "e", "n", "\\", "c", "o", "m", "m", "a", "n", "d">>)
AssociationCap == 50

\* _extract_file_associations
extract_file_associations(str) ==
    LET found == FindIter(str, LowerCase(str), <<assoc_pattern>>, 1)
    IN Capped([k \in 1..Len(found) |->
                  [extension |-> SubSeq(str, found[k].start + 1,
                                        found[k].stop - 1 - Len(assoc_pattern.lit2)),
                   key |-> Matched(str, found[k]),
                   offset |-> found[k].start - 1]], AssociationCap)

software_patterns ==
    <<ThenOut(<<"S", "O", "F", "T", "W", "A", "R", "E", "\\", "M", "i", "c", "r", "o", "s", "o", "f", "t", "\\", "W", "i", "n", "d", "o", "w", "s", "\\", "C", "u", "r", "r", "e", "n", "t", "V", "e", "r", "s", "i", "o", "n", "\\", "U", "n", "i", "n", "s", "t", "a", "l", "l", "\\">>, {"\\"}, Unbounded),
      ThenOut(<<"S", "O", "F", "T", "W", "A", "R", "E", "\\", "W", "o", "w", "6", "4", "3", "2", "N", "o", "d", "e", "\\", "M", "i", "c", "r", "o", "s", "o", "f", "t", "\\", "W", "i", "n", "d", "o", "w", "s", "\\", "C", "u", "r", "r", "e", "n", "t", "V", "e", "r", "s", "i", "o", "n", "\\", "U", "n", "i", "n", "s", "t", "a", "l", "l", "\\">>, {"\\"}, Unbounded)>>
SoftwareCap == 100

\* _extract_installed_software
extract_installed_software(str) ==
    LET found == FindEach(str, LowerCase(str), software_patterns)
        software == [k \in 1..Len(found) |->
                        [name |-> SubSeq(str, found[k].start
                                              + Len(software_patterns[IF LitAt(LowerCase(str), found[k].start, software_patterns[1].lit) THEN 1 ELSE 2].lit),
                                         found[k].stop - 1),
                         path |-> Matched(str, found[k]),
                         offset |-> found[k].start - 1]]
    IN Capped(DedupBy(software, LAMBDA entry : entry.name), SoftwareCap)

\* the known persistence locations, in written order
persistence_keys ==
    <<<<"C", "u", "r", "r", "e", "n", "t", "V", "e", "r", "s", "i", "o", "n", "\\", "R", "u", "n">>,
      <<"C", "u", "r", "r", "e", "n", "t", "V", "e", "r", "s", "i", "o", "n", "\\", "R", "u", "n", "O", "n", "c", "e">>,
      <<"C", "u", "r", "r", "e", "n", "t", "V", "e", "r", "s", "i", "o", "n", "\\", "R", "u", "n", "S", "e", "r", "v", "i", "c", "e", "s">>,
      <<"C", "u", "r", "r", "e", "n", "t", "V", "e", "r", "s", "i", "o", "n", "\\", "E", "x", "p", "l", "o", "r", "e", "r", "\\", "S", "h", "e", "l", "l", " ", "F", "o", "l", "d", "e", "r", "s", "\\", "S", "t", "a", "r", "t", "u", "p">>,
      <<"C", "u", "r", "r", "e", "n", "t", "C", "o", "n", "t", "r", "o", "l", "S", "e", "t", "\\", "S", "e", "r", "v", "i", "c", "e", "s">>,
      <<"S", "O", "F", "T", "W", "A", "R", "E", "\\", "M", "i", "c", "r", "o", "s", "o", "f", "t", "\\", "W", "i", "n", "d", "o", "w", "s", " ", "N", "T", "\\", "C", "u", "r", "r", "e", "n", "t", "V", "e", "r", "s", "i", "o", "n", "\\", "S", "c", "h", "e", "d", "u", "l", "e", "\\", "T", "a", "s", "k", "C", "a", "c", "h", "e">>,
      <<"S", "O", "F", "T", "W", "A", "R", "E", "\\", "G", "o", "o", "g", "l", "e", "\\", "C", "h", "r", "o", "m", "e", "\\", "E", "x", "t", "e", "n", "s", "i", "o", "n", "s">>,
      <<"S", "O", "F", "T", "W", "A", "R", "E", "\\", "M", "o", "z", "i", "l", "l", "a", "\\", "F", "i", "r", "e", "f", "o", "x", "\\", "E", "x", "t", "e", "n", "s", "i", "o", "n", "s">>,
      <<"S", "O", "F", "T", "W", "A", "R", "E", "\\", "M", "i", "c", "r", "o", "s", "o", "f", "t", "\\", "W", "i", "n", "d", "o", "w", "s", " ", "N", "T", "\\", "C", "u", "r", "r", "e", "n", "t", "V", "e", "r", "s", "i", "o", "n", "\\", "W", "i", "n", "d", "o", "w", "s", "\\", "A", "p", "p", "I", "n", "i", "t", "_", "D", "L", "L", "s">>,
      <<"S", "O", "F", "T", "W", "A", "R", "E", "\\", "M", "i", "c", "r", "o", "s", "o", "f", "t", "\\", "W", "i", "n", "d", "o", "w", "s", " ", "N", "T", "\\", "C", "u", "r", "r", "e", "n", "t", "V", "e", "r", "s", "i", "o", "n", "\\", "I", "m", "a", "g", "e", " ", "F", "i", "l", "e", " ", "E", "x", "e", "c", "u", "t", "i", "o", "n", " ", "O", "p", "t", "i", "o", "n", "s">>,
      <<"S", "O", "F", "T", "W", "A", "R", "E", "\\", "M", "i", "c", "r", "o", "s", "o", "f", "t", "\\", "W", "i", "n", "d", "o", "w", "s", " ", "N", "T", "\\", "C", "u", "r", "r", "e", "n", "t", "V", "e", "r", "s", "i", "o", "n", "\\", "W", "i", "n", "l", "o", "g", "o", "n">>>>

\* _categorize_persistence
categorize_persistence(key) ==
    IF Has(key, <<"R", "u", "n">>) THEN "startup"
    ELSE IF Has(key, <<"S", "e", "r", "v", "i", "c", "e", "s">>) THEN "service"
    ELSE IF Has(key, <<"S", "c", "h", "e", "d", "u", "l", "e">>) THEN "scheduled_task"
    ELSE IF Has(key, <<"E", "x", "t", "e", "n", "s", "i", "o", "n", "s">>) THEN "browser_extension"
    ELSE IF Has(key, <<"A", "p", "p", "I", "n", "i", "t">>) THEN "dll_injection"
    ELSE IF Has(key, <<"I", "m", "a", "g", "e", " ", "F", "i", "l", "e", " ", "E", "x", "e", "c", "u", "t", "i", "o", "n">>) THEN "debugger"
    ELSE IF Has(key, <<"W", "i", "n", "l", "o", "g", "o", "n">>) THEN "winlogon"
    ELSE "other"

high_risk_indicators ==
    {<<"p", "o", "w", "e", "r", "s", "h", "e", "l", "l">>, <<"c", "m", "d", ".", "e", "x", "e">>, <<"w", "s", "c", "r", "i", "p", "t">>, <<"c", "s", "c", "r", "i", "p", "t">>, <<"r", "e", "g", "s", "v", "r", "3", "2">>,
     <<"r", "u", "n", "d", "l", "l", "3", "2">>, <<"m", "s", "h", "t", "a">>, <<"b", "i", "t", "s", "a", "d", "m", "i", "n">>}

\* _assess_risk_level
assess_risk_level(key, context) ==
    IF \E indicator \in high_risk_indicators : Has(LowerCase(context), indicator)
    THEN "high"
    ELSE IF Has(key, <<"A", "p", "p", "I", "n", "i", "t">>) \/ Has(key, <<"I", "m", "a", "g", "e", " ", "F", "i", "l", "e", " ", "E", "x", "e", "c", "u", "t", "i", "o", "n">>) THEN "high"
    ELSE IF Has(key, <<"R", "u", "n">>) THEN "medium"
    ELSE "low"

\* the context of a hit: 100 characters before the match, 200 behind it
ContextBefore == 100
ContextAfter == 200
PersistenceCap == 50

\* str.strip()
StripWs(str) ==
    LET inked == {k \in 1..Len(str) : str[k] \notin WhiteSpace}
    IN IF inked = {} THEN <<>>
       ELSE SubSeq(str, CHOOSE a \in inked : \A b \in inked : a <= b,
                        CHOOSE a \in inked : \A b \in inked : b <= a)

\* _find_persistence_mechanisms
find_persistence_mechanisms(str) ==
    LET low == LowerCase(str)
        hit(k, match) ==
            LET context == Slice(str, Max(0, match.start - 1 - ContextBefore),
                                 Min(Len(str), match.stop - 1 + ContextAfter))
            IN [type |-> categorize_persistence(persistence_keys[k]),
                location |-> k,
                context |-> StripWs(context),
                offset |-> match.start - 1,
                risk_level |-> assess_risk_level(persistence_keys[k], context)]
        hits(k) == LET found == FindIter(str, low, <<Literal(persistence_keys[k])>>, 1)
                   IN [h \in 1..Len(found) |-> hit(k, found[h])]
    IN Capped(Concat([k \in 1..Len(persistence_keys) |-> hits(k)]), PersistenceCap)

\* RegistryExtractor.analyze: the six extractions in written order; the
\* first exception ends it
registry_analyze(str) ==
    LET run_keys == extract_run_keys(str)
    IN IF run_keys.err # NoExc
       THEN [done |-> TRUE, err |-> run_keys.err]
       ELSE LET registry_keys == extract_registry_keys(str)
                services == extract_services(str)
                persistence == find_persistence_mechanisms(str)
            IN [done |-> TRUE, err |-> NoExc,
                registry_keys |-> registry_keys,
                run_keys |-> run_keys.value,
                services |-> services,
                file_associations |-> extract_file_associations(str),
                installed_software |-> extract_installed_software(str),
                persistence_mechanisms |-> persistence,
                statistics |-> [total_keys |-> Len(registry_keys),
                                run_entries |-> Len(run_keys.value),
                                services |-> Len(services),
                                persistence_indicators |-> Len(persistence)]]

\* the texts: a key, with or without a high risk word before it and behind
\* it, at a distance that leaves the word inside the context of the hit or
\* cuts its first or last character off
Fill(n) == [k \in 1..n |-> "."]

KeyTexts ==
    {<<"\"", "H", "K", "E", "Y", "_", "L", "O", "C", "A", "L", "_", "M", "A", "C", "H", "I", "N", "E", "\\", "S", "O", "F", "T", "W", "A", "R", "E", "\\", "M", "i", "c", "r", "o", "s", "o", "f", "t", "\\", "W", "i", "n", "d", "o", "w", "s", "\\", "C", "u", "r", "r", "e", "n", "t", "V", "e", "r", "s", "i", "o", "n", "\\", "R", "u", "n", "\\", "F", "o", "o", "\"">>,
     <<"C", "u", "r", "r", "e", "n", "t", "V", "e", "r", "s", "i", "o", "n", "\\", "R", "u", "n">>,
     <<"h", "k", "c", "u", "\\", "s", "o", "f", "t", "w", "a", "r", "e", "\\", "m", "i", "c", "r", "o", "s", "o", "f", "t", "\\", "w", "i", "n", "d", "o", "w", "s", "\\", "c", "u", "r", "r", "e", "n", "t", "v", "e", "r", "s", "i", "o", "n", "\\", "r", "u", "n", "o", "n", "c", "e">>,
     <<"C", "u", "r", "r", "e", "n", "t", "V", "e", "r", "s", "i", "o", "n", "\\", "R", "u", "n", "S", "e", "r", "v", "i", "c", "e", "s", " ", "C", "u", "r", "r", "e", "n", "t", "V", "e", "r", "s", "i", "o", "n", "\\", "R", "u", "n">>,
     <<"C", "u", "r", "r", "e", "n", "t", "V", "e", "r", "s", "i", "o", "n", "\\", "E", "x", "p", "l", "o", "r", "e", "r", "\\", "S", "h", "e", "l", "l", " ", "F", "o", "l", "d", "e", "r", "s", "\\", "S", "t", "a", "r", "t", "u", "p">>,
     <<"H", "K", "L", "M", "\\", "S", "Y", "S", "T", "E", "M", "\\", "C", "u", "r", "r", "e", "n", "t", "C", "o", "n", "t", "r", "o", "l", "S", "e", "t", "\\", "S", "e", "r", "v", "i", "c", "e", "s", "\\", "F", "o", "o">>,
     <<"S", "O", "F", "T", "W", "A", "R", "E", "\\", "M", "i", "c", "r", "o", "s", "o", "f", "t", "\\", "W", "i", "n", "d", "o", "w", "s", " ", "N", "T", "\\", "C", "u", "r", "r", "e", "n", "t", "V", "e", "r", "s", "i", "o", "n", "\\", "S", "c", "h", "e", "d", "u", "l", "e", "\\", "T", "a", "s", "k", "C", "a", "c", "h", "e">>,
     <<"S", "O", "F", "T", "W", "A", "R", "E", "\\", "G", "o", "o", "g", "l", "e", "\\", "C", "h", "r", "o", "m", "e", "\\", "E", "x", "t", "e", "n", "s", "i", "o", "n", "s">>,
     <<"S", "O", "F", "T", "W", "A", "R", "E", "\\", "M", "i", "c", "r", "o", "s", "o", "f", "t", "\\", "W", "i", "n", "d", "o", "w", "s", " ", "N", "T", "\\", "C", "u", "r", "r", "e", "n", "t", "V", "e", "r", "s", "i", "o", "n", "\\", "W", "i", "n", "d", "o", "w", "s", "\\", "A", "p", "p", "I", "n", "i", "t", "_", "D", "L", "L", "s">>,
     <<"S", "O", "F", "T", "W", "A", "R", "E", "\\", "M", "i", "c", "r", "o", "s", "o", "f", "t", "\\", "W", "i", "n", "d", "o", "w", "s", " ", "N", "T", "\\", "C", "u", "r", "r", "e", "n", "t", "V", "e", "r", "s", "i", "o", "n", "\\", "I", "m", "a", "g", "e", " ", "F", "i", "l", "e", " ", "E", "x", "e", "c", "u", "t", "i", "o", "n", " ", "O", "p", "t", "i", "o", "n", "s">>,
     <<"S", "O", "F", "T", "W", "A", "R", "E", "\\", "M", "i", "c", "r", "o", "s", "o", "f", "t", "\\", "W", "i", "n", "d", "o", "w", "s", " ", "N", "T", "\\", "C", "u", "r", "r", "e", "n", "t", "V", "e", "r", "s", "i", "o", "n", "\\", "W", "i", "n", "l", "o", "g", "o", "n">>,
     <<"H", "K", "C", "R", "\\", ".", "t", "x", "t", "\\", "S", "h", "e", "l", "l", "\\", "O", "p", "e", "n", "\\", "C", "o", "m", "m", "a", "n", "d">>,
     <<"S", "O", "F", "T", "W", "A", "R", "E", "\\", "M", "i", "c", "r", "o", "s", "o", "f", "t", "\\", "W", "i", "n", "d", "o", "w", "s", "\\", "C", "u", "r", "r", "e", "n", "t", "V", "e", "r", "s", "i", "o", "n", "\\", "U", "n", "i", "n", "s", "t", "a", "l", "l", "\\", "A", "p", "p">>,
     <<"n", "o", " ", "k", "e", "y">>}

RiskWords == {<<"P", "o", "w", "e", "r", "S", "h", "e", "l", "l">>, <<"c", "m", "d", ".", "e", "x", "e">>}
Sides(reach) ==
    {<<>>} \cup UNION {{<<word, gap>> : gap \in {0, reach - Len(word), reach - Len(word) + 1}} :
                          word \in RiskWords}

RegistryText(before, key, behind) ==
    (IF before = <<>> THEN <<>> ELSE before[1] \o Fill(before[2]))
        \o key
        \o (IF behind = <<>> THEN <<>> ELSE Fill(behind[2]) \o behind[1])

RegistryTexts ==
    {RegistryText(before, key, behind) :
        before \in Sides(ContextBefore), key \in KeyTexts, behind \in Sides(ContextAfter)}

InitRegistry ==
    /\ arg \in [text : RegistryTexts]
    /\ ret = NotCalled
    /\ NoAnalyzer
    /\ NoAccessor

RegistryAnalyze ==
    /\ ~ret.done
    /\ ret' = registry_analyze(arg.text)
    /\ UNCHANGED arg
    /\ UNCHANGED <<mvars, avars>>

NextRegistry == RegistryAnalyze

SpecRegistry == InitRegistry /\ [][NextRegistry]_vars

\* --------------------------------------- NetworkExtractor._extract_urls
\* the characters that end a URL: white space and < > " { } | \ ^ [ ] (the
\* pattern has the backquote as well, which no text of the model contains)
UrlEnd == WhiteSpace \cup {"<", ">", "\"", "{", "}", "|", "\\", "^", "[", "]"}

\* https?:// and then one or more characters that do not end a URL, the
\* letters as they are written
url_pattern ==
    <<Pattern(<<"h", "t", "t", "p", "s", ":", "/", "/">>, "out", UrlEnd, Unbounded, <<>>),
      Pattern(<<"h", "t", "t", "p", ":", "/", "/">>, "out", UrlEnd, Unbounded, <<>>)>>

UrlContext == 50
UrlCap == 100

\* _extract_urls
extract_urls(str) ==
    LET found == FindIter(str, str, url_pattern, 1)
    IN Capped([k \in 1..Len(found) |->
                  [url |-> Matched(str, found[k]),
                   context |-> StripWs(Slice(str,
                                   Max(0, found[k].start - 1 - UrlContext),
                                   Min(Len(str), found[k].stop - 1 + UrlContext))),
                   offset |-> found[k].start - 1]], UrlCap)

\* the texts: up to MaxPieces pieces, one after the other
UrlPieces == {<<"h", "t", "t", "p", ":", "/", "/", "a">>, <<"h", "t", "t", "p", "s", ":", "/", "/", "b">>, <<" ">>, <<"x", "<">>, <<"H", "T", "T", "P", ":", "/", "/", "c">>}

UrlTexts == {Concat(pieces) : pieces \in UNION {[1..n -> UrlPieces] : n \in 0..MaxPieces}}

InitUrls ==
    /\ arg \in [text : UrlTexts]
    /\ ret = NotCalled
    /\ NoAnalyzer
    /\ NoAccessor

ExtractUrls ==
    /\ ~ret.done
    /\ ret' = [done |-> TRUE, urls |-> extract_urls(arg.text)]
    /\ UNCHANGED arg
    /\ UNCHANGED <<mvars, avars>>

NextUrls == ExtractUrls

SpecUrls == InitUrls /\ [][NextUrls]_vars

\* ------------------------- ProcessExtractorPlugin._extract_windows_processes
\* chunk_size, the overlap of two chunks, the length of the pool tag 'Proc',
\* the offsets of _parse_eprocess (0x2E0 and 0x450) and the first 10MB
ChunkSize == 1048576
Overlap == 1024
TagLen == 4
EprocessBack == 736
name_offset == 1104
NameScan == 10485760

NoName == "(none)"
ProcNames == {"svc", "a.exe"}
ExeNames == {"a.exe", "b.exe"}

\* a set of offsets in rising order
RECURSIVE SortSet(_)
SortSet(places) ==
    IF places = {} THEN <<>>
    ELSE LET least == CHOOSE p \in places : \A q \in places : p <= q
         IN <<least>> \o SortSet(places \ {least})

\* _parse_eprocess at a pool tag found at  place:  the name is read at
\* place - 0x2E0 + 0x450; a read from a negative offset raises on a buffered
\* handle and wraps to the end of a mapping, and either way, as with a name
\* field that lies behind the end of the file, there is nothing to return
parse_eprocess(file, place) ==
    IF place - EprocessBack < 0 THEN NoName
    ELSE IF place - EprocessBack + name_offset + 2 > file.file_size THEN NoName
    ELSE file.names[place]

\* the pool tags of one chunk: for i in range(0, len(chunk) - 4)
tags_of_chunk(file, offset) ==
    LET length == Min(ChunkSize, file.file_size - offset)
    IN SortSet({p \in file.marks : offset <= p /\ p - offset < length - TagLen})

\* the names the pattern ([a-zA-Z0-9_\-]+\.exe)\x00 finds in the first 10MB:
\* those of the name fields and those elsewhere in the file
exe_names(file) ==
    LET places == SortSet({p \in file.marks :
                              /\ file.names[p] \in ExeNames
                              /\ p - EprocessBack + name_offset < Min(NameScan, file.file_size)})
    IN [k \in 1..Len(places) |-> file.names[places[k]]] \o file.strings

\* for match in name_pattern.finditer(chunk): a name is added unless a
\* process has it
RECURSIVE add_names(_, _)
add_names(processes, names) ==
    IF names = <<>> THEN processes
    ELSE add_names(IF \E k \in 1..Len(processes) : processes[k] = Head(names)
                   THEN processes ELSE Append(processes, Head(names)),
                   Tail(names))

\* _generate_summary: the number of processes and of their different names
generate_summary(processes) ==
    [total_processes |-> Len(processes),
     unique_names |-> Cardinality({processes[k] : k \in 1..Len(processes)})]

\* the files: a size, the places of the pool tag, the name in the name field
\* of each, and the .exe names written elsewhere
WindowsFileSizes ==
    {0, 4, 5, 100, 2000, ChunkSize - Overlap + 5, ChunkSize, ChunkSize + 2000}

TagPlaces(size) ==
    {p \in {0, 96, 1000, 1500, size - 5, size - 4, ChunkSize - Overlap + 10,
            ChunkSize - 4, ChunkSize - 2} : p >= 0 /\ p + TagLen <= size}

TagSets(size) ==
    {marks \in SUBSET TagPlaces(size) :
        /\ Cardinality(marks) <= MaxMarks
        /\ \A p, q \in marks : p < q => p + TagLen <= q}

WindowsFiles ==
    UNION {UNION {[file_size : {size}, marks : {marks},
                   names : [marks -> ProcNames \cup {NoName}],
                   strings : {<<>>, <<"a.exe">>, <<"b.exe", "b.exe">>}] :
                     marks \in TagSets(size)} :
             size \in WindowsFileSizes}

InitProcesses ==
    /\ arg \in WindowsFiles
    /\ ret = [pc |-> "scan", offset |-> 0, handed |-> <<>>, processes |-> <<>>,
              summary |-> generate_summary(<<>>)]
    /\ NoAnalyzer
    /\ NoAccessor

\* one turn of the loop  while offset < file_size:  a chunk is read, every
\* pool tag in it is handed to _parse_eprocess, and the offset moves on
ScanChunk ==
    /\ ret.pc = "scan"
    /\ ret.offset < arg.file_size
    /\ LET tags == tags_of_chunk(arg, ret.offset)
           found == SelectSeq([k \in 1..Len(tags) |-> parse_eprocess(arg, tags[k])],
                              LAMBDA name : name # NoName)
       IN ret' = [ret EXCEPT !.handed = @ \o tags,
                             !.processes = @ \o found,
                             !.offset = @ + ChunkSize - Overlap]
    /\ UNCHANGED arg
    /\ UNCHANGED <<mvars, avars>>

\* behind the loop: the names of the first 10MB are added, the list is
\* returned and summed up
ScanNames ==
    /\ ret.pc = "scan"
    /\ ret.offset >= arg.file_size
    /\ LET processes == add_names(ret.processes, exe_names(arg))
       IN ret' = [ret EXCEPT !.pc = "done",
                             !.processes = processes,
                             !.summary = generate_summary(processes)]
    /\ UNCHANGED arg
    /\ UNCHANGED <<mvars, avars>>

NextProcesses == ScanChunk \/ ScanNames

SpecProcesses == InitProcesses /\ [][NextProcesses]_vars

\* ------------------------------------------------------------ PluginManager
\* the plugin classes at hand: the name of the metadata, get_priority, what
\* validate_data returns and whether analyze raises
ManagerPlugins ==
    [a |-> [priority |-> 0, valid |-> TRUE, raises |-> FALSE],
     b |-> [priority |-> 15, valid |-> TRUE, raises |-> TRUE],
     c |-> [priority |-> 15, valid |-> FALSE, raises |-> FALSE]]

ManagerNames == DOMAIN ManagerPlugins

\* sorted(plugins, key=get_priority, reverse=True): the higher priority
\* first, plugins of one priority in the order they had
RECURSIVE SortByPriority(_)
SortByPriority(names) ==
    IF names = <<>> THEN <<>>
    ELSE LET rest == SortByPriority(Tail(names))
             ahead == {k \in 0..Len(rest) :
                          \A h \in 1..k :
                              ManagerPlugins[rest[h]].priority
                                  > ManagerPlugins[Head(names)].priority}
             k == CHOOSE k \in ahead : \A h \in ahead : h <= k
         IN SubSeq(rest, 1, k) \o <<Head(names)>> \o SubSeq(rest, k + 1, Len(rest))

\* get_enabled_plugins
get_enabled_plugins(manager) ==
    SortByPriority(SelectSeq(manager.enabled_plugins,
                             LAMBDA name : name \in manager.plugins))

\* list.remove(name): the first entry that is the name goes
RemoveFirst(names, name) ==
    LET k == CHOOSE k \in 1..Len(names) :
                 names[k] = name /\ \A h \in 1..(k - 1) : names[h] # name
    IN SubSeq(names, 1, k - 1) \o SubSeq(names, k + 1, Len(names))

\* the entry of results for one plugin of run_analysis
run_plugin(name) ==
    IF ManagerPlugins[name].valid /\ ManagerPlugins[name].raises
    THEN [success |-> FALSE, error |-> "raised"]
    ELSE IF ManagerPlugins[name].valid
    THEN [success |-> TRUE, error |-> ""]
    ELSE [success |-> FALSE, error |-> "Data validation failed"]

NewManager ==
    [plugins |-> {}, enabled_plugins |-> <<>>, last |-> "__init__",
     returned |-> <<>>, ran |-> <<>>, results |-> <<>>]

InitManager ==
    /\ arg = <<>>
    /\ ret = NewManager
    /\ NoAnalyzer
    /\ NoAccessor

\* every call is written down in arg, the calls made so far
Called(op, name) ==
    /\ Len(arg) < MaxCalls
    /\ arg' = Append(arg, [op |-> op, name |-> name])
    /\ UNCHANGED <<mvars, avars>>

RegisterPlugin(name) ==
    /\ Called("register_plugin", name)
    /\ ret' = [ret EXCEPT !.plugins = @ \cup {name}, !.last = "register_plugin"]

EnablePlugin(name) ==
    /\ Called("enable_plugin", name)
    /\ ret' = [ret EXCEPT !.enabled_plugins =
                               IF name \in ret.plugins THEN Append(@, name) ELSE @,
                          !.last = "enable_plugin"]

DisablePlugin(name) ==
    /\ Called("disable_plugin", name)
    /\ ret' = [ret EXCEPT !.enabled_plugins =
                               IF \E k \in 1..Len(@) : @[k] = name
                               THEN RemoveFirst(@, name) ELSE @,
                          !.last = "disable_plugin"]

GetEnabledPlugins ==
    /\ Called("get_enabled_plugins", "")
    /\ ret' = [ret EXCEPT !.returned = get_enabled_plugins(ret),
                          !.last = "get_enabled_plugins"]

\* run_analysis: every plugin get_enabled_plugins returns is run, in that
\* order, and its entry is written under its name
RunAnalysis ==
    /\ Called("run_analysis", "")
    /\ LET plugins == get_enabled_plugins(ret)
       IN ret' = [ret EXCEPT
                     !.returned = plugins,
                     !.ran = plugins,
                     !.results = [name \in {plugins[k] : k \in 1..Len(plugins)} |->
                                     run_plugin(name)],
                     !.last = "run_analysis"]

NextManager ==
    \/ \E name \in ManagerNames :
          RegisterPlugin(name) \/ EnablePlugin(name) \/ DisablePlugin(name)
    \/ GetEnabledPlugins
    \/ RunAnalysis

SpecManager == InitManager /\ [][NextManager]_vars

\* ------------------------------------------------------------- properties
Succeeded(m) == outcome[m].err = NoExc
Failed(m) == outcome[m].err.type \notin {"none", "pending"}
ErrorsOf(m) == {i \in 1..Len(errors) : errors[i].plugin = m}
Range(seq) == {seq[i] : i \in 1..Len(seq)}

\* C1: a plugin whose analyze raises leaves the other plugins' results in
\* place: every plugin that returned normally and has been handled has its
\* own data under its own name, during the run and when the run has returned
\* (every registered plugin is handled by then), and analyze() never raises
\* once a plugin has run, so never because of a failing plugin.
C1_PluginIsolation ==
    /\ \A m \in Plugins :
          task[m] = "collected" /\ Succeeded(m) => results[m] = outcome[m].data
    /\ pc = "returned" => \A m \in Registered : task[m] = "collected"
    /\ pc = "raised" => \A m \in Plugins : outcome[m] = NoOutcome

C1_Witness ==
    /\ pc = "returned"
    /\ mode = "parallel"
    /\ \E a, b \in Registered :
          /\ Failed(a)
          /\ Succeeded(b)
          /\ results[b] = outcome[b].data

\* C2: when the run has returned every registered plugin has exactly one
\* outcome, a result or one error entry, never both, never none; and no
\* step of the run overwrites a stored result or removes or changes an
\* error entry.
C2_FinalOutcomes ==
    pc = "returned" =>
        \A m \in Registered :
            \/ results[m] # Absent /\ ErrorsOf(m) = {}
            \/ results[m] = Absent /\ Cardinality(ErrorsOf(m)) = 1

C2_WriteOnce ==
    /\ \A m \in Plugins : results[m] # Absent => results'[m] = results[m]
    /\ Len(errors') >= Len(errors)
    /\ SubSeq(errors', 1, Len(errors)) = errors

C2_ExactlyOneOutcome == [](C2_FinalOutcomes) /\ [][C2_WriteOnce]_vars

C2_Witness ==
    /\ pc = "returned"
    /\ mode = "sequential"
    /\ Registered = Plugins
    /\ \E a, b \in Plugins : results[a] # Absent /\ ErrorsOf(b) # {}

\* C3 (as claimed): while a plugin's analyze is running, the file handle of
\* the DumpData it was given is open and its mapping, if any, is not closed.
C3_HandleOpenWhilePluginsRun ==
    \A m \in Plugins : task[m] = "running" => fh = "open" /\ mm # "closed"

\* C4 (as claimed): when the run has ended, by return or by exception, at
\* most one file and one mapping were opened, each was closed by exactly one
\* close() call, and nothing is left open.
C4_ClosedExactlyOnceAtRunEnd ==
    pc \in {"returned", "raised"} =>
        /\ io.opens <= 1
        /\ io.mmaps <= 1
        /\ io.fhCloses = io.opens
        /\ io.mmCloses = io.mmaps
        /\ fh # "open"
        /\ mm # "open"

\* C6 (as claimed): analyze() raises only when the setup step failed with
\* recovery mode off, and then it raises the error that made setup fail.
C6_RaisesOnlyOnSetupFailureWithoutRecovery ==
    pc = "raised" => ~recovery /\ setupErr # NoExc /\ raisedErr = setupErr

AccessErrorClasses == {"PermissionError", "OSError"}

\* C7 (as claimed): an access failure during setup does not make analyze()
\* raise in recovery mode, and the aggregate returned then records it in
\* errors; with recovery mode off the failure itself reaches the caller.
C7_AccessErrorRecordedInRecoveryMode ==
    setupErr.type \in AccessErrorClasses =>
        IF recovery
        THEN /\ pc # "raised"
             /\ pc = "returned" => \E i \in 1..Len(errors) :
                                      errors[i].type = setupErr.type
        ELSE pc = "raised" /\ raisedErr = setupErr

\* a recognised signature in front of a header too short for its format
TooShortHeader(data) ==
    \/ detect_format(data) = "minidump" /\ Len(data) < 32
    \/ detect_format(data) = "elf_core" /\ Len(data) < 52

StructuralErrors ==
    {Exc("ValueError", "Invalid minidump header"),
     Exc("ValueError", "Invalid ELF header"),
     Exc("ValueError", "Invalid ELF magic")}

\* C8 (as claimed): a too short header behind a recognised signature never
\* makes the run raise, and the run goes on with format 'unknown'.
C8_StructuralErrorFallsBackToUnknown ==
    TooShortHeader(dump) =>
        /\ setupErr \in StructuralErrors => pc # "raised"
        /\ pc \in {"plugins", "returned"} => metadata.format = "unknown"

\* C8 (amended): with recovery mode on, the structural error is swallowed:
\* the format stays the one the signature gave, the format's header fields
\* are missing, the plugins run and the aggregate is returned; with recovery
\* mode off the structural error is raised to the caller and no plugin runs.
C8_StructuralErrorSwallowedInRecoveryMode ==
    TooShortHeader(dump) =>
        /\ pc \in {"plugins", "returned"} =>
              /\ recovery
              /\ setupErr = NoExc
              /\ metadata.format = detect_format(dump)
              /\ metadata.arch = "none"
              /\ ~metadata.minidump_fields
        /\ pc = "returned" => \A m \in Registered : task[m] = "collected"
        /\ setupErr \in StructuralErrors =>
              /\ ~recovery
              /\ pc = "raised"
              /\ raisedErr = setupErr
              /\ \A m \in Plugins : task[m] = "none"

C8_Witness ==
    /\ TooShortHeader(dump)
    /\ recovery
    /\ pc = "returned"
    /\ metadata.format = "minidump"
    /\ \E m \in Registered : results[m] # Absent

\* C9 (as claimed): in sequential mode the analyze calls are made one at a
\* time, in non-increasing order of get_priority().
C9_SequentialByDescendingPriority ==
    mode = "sequential" =>
        /\ Cardinality(Running) <= 1
        /\ \A i, j \in 1..Len(callLog) :
              i < j => get_priority(callLog[i]) >= get_priority(callLog[j])

\* the aggregate of the run in which the plugins complete in the order they
\* were submitted: one of the completion orders of every parallel run
ExpectedResults ==
    [m \in Plugins |->
        IF m \in Registered /\ Succeeded(m) THEN outcome[m].data ELSE Absent]

RECURSIVE ErrorsInOrder(_)
ErrorsInOrder(reg) ==
    IF reg = <<>> THEN <<>>
    ELSE LET m == Head(reg)
             rest == ErrorsInOrder(Tail(reg))
         IN IF Failed(m)
            THEN <<[plugin |-> m, error |-> outcome[m].err.msg,
                    type |-> outcome[m].err.type]>> \o rest
            ELSE rest

\* C10 (as claimed): the aggregate a parallel run returns is the one of the
\* run that completes in submission order, whatever the completion order:
\* the same results map, the same errors list, the same warnings list.
C10_AggregateSameForEveryCompletionOrder ==
    pc = "returned" /\ mode = "parallel" =>
        /\ results = ExpectedResults
        /\ errors = ErrorsInOrder(registry)
        /\ warnings = <<>>

\* C10 (amended): the results map and the warnings list are the same for
\* every completion order, and the errors list holds the same entries, once
\* each; the order of the entries is the completion order.
C10_AggregateSameUpToErrorOrder ==
    pc = "returned" /\ mode = "parallel" =>
        /\ results = ExpectedResults
        /\ Range(errors) = Range(ErrorsInOrder(registry))
        /\ Len(errors) = Len(ErrorsInOrder(registry))
        /\ warnings = <<>>

C10_Witness ==
    /\ pc = "returned"
    /\ mode = "parallel"
    /\ Len(errors) >= 2
    /\ errors # ErrorsInOrder(registry)
    /\ \E m \in Registered : results[m] # Absent


\* the bytes of data from offset up to offset + size, clipped at the end of
\* the file; size -1 stands for the rest of the file
FileBytes(data, offset, size) ==
    Slice(data, Min(offset, Len(data)),
          IF size = -1 THEN Len(data) ELSE Min(offset + size, Len(data)))

\* C5 (as claimed): whatever the other threads do on the shared DumpData,
\* as long as nobody closes it, a read(offset, size) with offset >= 0 and
\* size >= -1 that has completed did not raise and returned the
\* file's bytes from offset to offset + size, clipped at the end of file,
\* with the mapping and with seek+read alike.
C5_ConcurrentReadsReturnFileBytes ==
    \A t \in Threads :
        /\ reader[t].pc = "done"
        /\ reader[t].offset >= 0
        /\ reader[t].size >= -1
        /\ aclose.calls = 0
        =>
            /\ reader[t].err = NoExc
            /\ reader[t].bytes = FileBytes(afile, reader[t].offset, reader[t].size)

\* C11: in a parallel run never more than max_workers analyze calls are in
\* progress; no plugin's analyze is invoked twice in a run and, when the run
\* returns, the analyze of every registered plugin has been invoked, so
\* exactly once each; and every call works on the one DumpData of the run:
\* while the plugins run, the dump and its two handles stay what parse() made.
C11_PoolBound ==
    /\ mode = "parallel" => Cardinality(Running) <= MaxWorkers
    /\ \A i, j \in 1..Len(callLog) : callLog[i] = callLog[j] => i = j
    /\ Range(callLog) \subseteq Registered
    /\ pc = "returned" => Range(callLog) = Registered

C11_SameDumpData ==
    pc = "plugins" => dump' = dump /\ fh' = fh /\ mm' = mm

C11_BoundedPoolEachPluginOnce == [](C11_PoolBound) /\ [][C11_SameDumpData]_vars

C11_Witness ==
    /\ pc = "plugins"
    /\ mode = "parallel"
    /\ Registered = Plugins
    /\ Cardinality(Running) = Min(MaxWorkers, Cardinality(Plugins))
    /\ MaxWorkers < Cardinality(Plugins) => \E m \in Plugins : task[m] = "queued"

NoneHangs == \A m \in Registered : behav[m] # Hangs

\* C12: once setup has succeeded, a run none of whose registered plugins
\* hangs eventually returns its aggregate, in sequential and in parallel
\* mode; a run returns only if no registered plugin hangs; and a hanging
\* call is never taken out of its worker by a timeout or a cancellation.
C12_NoCancellation ==
    \A m \in Plugins :
        task[m] = "running" /\ behav[m] = Hangs => task'[m] = "running"

C12_TerminatesExactlyWhenPluginsDo ==
    /\ (pc = "plugins" /\ NoneHangs) ~> (pc = "returned")
    /\ [](pc = "returned" /\ setupErr = NoExc => NoneHangs)
    /\ [][C12_NoCancellation]_vars

C12_Witness ==
    /\ pc = "returned"
    /\ mode = "parallel"
    /\ Registered = Plugins
    /\ NoneHangs
    /\ \E m \in Plugins : behav[m] = "raises"

C12_WitnessHang ==
    /\ pc = "plugins"
    /\ mode = "parallel"
    /\ \E m \in Registered : task[m] = "running" /\ behav[m] = Hangs
    /\ \A m \in Registered : behav[m] # Hangs => task[m] = "collected"

\* C13 (as claimed): on a DumpData that nobody has closed, read(offset, size)
\* does not raise, whatever the offset and the size, negative ones included.
C13_ReadNeverRaises ==
    \A t \in Threads :
        reader[t].pc = "done" /\ aclose.calls = 0 => reader[t].err = NoExc

\* C15 (as claimed): after one or more close() calls the file handle is
\* closed, no mapping is left open, and the last call did not raise.
C15_CloseIdempotent ==
    aclose.calls >= 1 =>
        /\ aclose.err = NoExc
        /\ afh = "closed"
        /\ amm # "open"

\* C14: for every file, every offset >= 0 and every size >= 0 or = -1, the
\* read through the mapping and the read through seek+read both succeed and
\* return the same bytes: those from offset to offset + size clipped at the
\* end of file, or to the end of file for size -1.
C14_MmapAndBufferedReadsAgree ==
    ret.done /\ arg.offset >= 0 /\ arg.size >= -1 =>
        /\ ret.mm.err = NoExc
        /\ ret.buf.err = NoExc
        /\ ret.mm.bytes = ret.buf.bytes
        /\ ret.buf.bytes = FileBytes(arg.data, arg.offset, arg.size)

C14_Witness ==
    /\ ret.done
    /\ ret.mapped
    /\ arg.offset > 0
    /\ arg.size > 0
    /\ arg.offset + arg.size > Len(arg.data)
    /\ ret.mm.bytes # <<>>
    /\ Len(ret.mm.bytes) < arg.size
    /\ ret.mm.bytes = ret.buf.bytes

\* the tag of the first entry of table whose signature the header starts with
FirstMatchTag(table, header) ==
    LET hits == {i \in 1..Len(table) : StartsWith(header, table[i].sig)}
    IN IF hits = {} THEN "unknown"
       ELSE table[CHOOSE i \in hits : \A j \in hits : i <= j].fmt

MachOEntries ==
    << [sig |-> <<254, 237, 250, 206>>, fmt |-> "macho_core"],
       [sig |-> <<206, 250, 237, 254>>, fmt |-> "macho_core"],
       [sig |-> <<254, 237, 250, 207>>, fmt |-> "macho_core"],
       [sig |-> <<207, 250, 237, 254>>, fmt |-> "macho_core"] >>

\* the table as the claim lists it
ClaimedTable ==
    << [sig |-> MDMP, fmt |-> "minidump"],
       [sig |-> PAGEDU64, fmt |-> "dmp64"],
       [sig |-> PAGEDUMP, fmt |-> "dmp32"],
       [sig |-> HIBR, fmt |-> "hibernation"],
       [sig |-> ELFMAGIC, fmt |-> "elf_core"] >> \o MachOEntries

\* the table with the EMF signature in its place
DeclaredTable ==
    << [sig |-> MDMP, fmt |-> "minidump"],
       [sig |-> PAGEDU64, fmt |-> "dmp64"],
       [sig |-> PAGEDUMP, fmt |-> "dmp32"],
       [sig |-> HIBR, fmt |-> "hibernation"],
       [sig |-> EMF, fmt |-> "vmware"],
       [sig |-> ELFMAGIC, fmt |-> "elf_core"] >> \o MachOEntries

\* C16 (as claimed): the format is the tag of the first of MDMP, PAGEDU64,
\* PAGEDUMP, HIBR, ELF magic, Mach-O magics that the header starts with, and
\* 'unknown' when it starts with none of them, and then parse() returns.
C16_FirstListedSignatureWins ==
    ret.done =>
        /\ ret.format = FirstMatchTag(ClaimedTable, arg.header)
        /\ ret.format = "unknown" => ret.status = "ok"

\* C16 (amended): the same with EMF -> vmware between HIBR and the ELF magic;
\* for 'unknown' parse() returns with that format in the metadata.
C16_FirstDeclaredSignatureWins ==
    ret.done =>
        /\ ret.format = FirstMatchTag(DeclaredTable, arg.header)
        /\ ret.status = "ok" => ret.metadata.format = ret.format
        /\ ret.format = "unknown" => ret.status = "ok"

C16_Witness ==
    /\ ret.done
    /\ StartsWith(arg.header, EMF)
    /\ ret.format = "vmware"
    /\ ret.status = "ok"

\* C17 (as claimed): for a dump of at least 32 bytes that begins with MDMP
\* the minidump header is parsed: setup does not fail in struct.unpack, and
\* when the plugins run the metadata holds the header's fields.
C17_MinidumpHeaderParsed ==
    StartsWith(dump, MDMP) /\ Len(dump) >= 32 =>
        /\ setupErr.type # "struct.error"
        /\ pc \in {"plugins", "returned"} => metadata.minidump_fields

ValidSize(size_str) == parse_size(size_str).err = NoExc
TooLarge == ValidSize(arg.max_file_size)
                /\ arg.file_size > parse_size(arg.max_file_size).value

\* C19 (as claimed): a dump larger than the maximum, or a configuration in
\* which one of the two size strings is invalid, never gets as far as
\* opening the file or reading from it, and setup does not succeed; a
\* dump not larger than the maximum is not refused as too large.
C19_RejectedBeforeOpen ==
    /\ TooLarge \/ ~ValidSize(arg.max_file_size)
            \/ ~ValidSize(arg.mmap_threshold) =>
          /\ ret.stage # "parsed"
          /\ ~ret.opened
          /\ ~ret.scanned
    /\ ~TooLarge => ret.err.msg # "Dump file too large"

\* C19 (amended): a dump larger than the maximum and an unparsable
\* max_file_size are refused by the constructor, with ValueError and before
\* the file is opened; an unparsable mmap_threshold is met only in parse(),
\* after the file has been opened: nothing is read from it, parse() raises
\* (ValueError, or IOError in recovery mode) and setup does not succeed; a
\* dump not larger than a parsable maximum passes the constructor.
C19_RejectedBeforeScan ==
    /\ TooLarge \/ ~ValidSize(arg.max_file_size) =>
          /\ ret.stage \in {"new", "rejected"}
          /\ ~ret.opened
          /\ ~ret.scanned
          /\ ret.stage = "rejected" => ret.err.type = "ValueError"
    /\ ~TooLarge /\ ValidSize(arg.max_file_size) =>
          /\ ret.stage # "rejected"
          /\ ret.err.msg # "Dump file too large"
          /\ ~ValidSize(arg.mmap_threshold) =>
                /\ ret.stage # "parsed"
                /\ ~ret.scanned
                /\ ret.stage = "raised" =>
                      /\ ret.opened
                      /\ ret.err = IF arg.recovery_mode
                                   THEN Exc("OSError", "Failed to open dump file")
                                   ELSE Exc("ValueError", "invalid literal for int()")
          /\ ValidSize(arg.mmap_threshold) => ret.stage # "raised"

C19_Witness ==
    /\ ret.stage = "raised"
    /\ ret.opened
    /\ ~ret.scanned
    /\ arg.file_size = 10
    /\ arg.max_file_size = <<"1", "0", "B">>
    /\ ~ValidSize(arg.mmap_threshold)

IpClasses == {"private_class_a", "private_class_b", "private_class_c",
              "loopback", "multicast", "public"}

\* C20: every dotted quad with its four numbers in 0..255 is classified,
\* with exactly one of the six classes, and each class is given exactly
\* under its rule on the first two numbers; public is what is left.
C20_IpClassByOctetRules ==
    LET a == arg.octets[1]
        b == arg.octets[2]
    IN ret.done /\ (\A i \in 1..4 : arg.octets[i] \in 0..255) =>
        /\ ret.found
        /\ ret.type \in IpClasses
        /\ ret.type = "private_class_a" <=> a = 10
        /\ ret.type = "private_class_b" <=> a = 172 /\ b \in 16..31
        /\ ret.type = "private_class_c" <=> a = 192 /\ b = 168
        /\ ret.type = "loopback" <=> a = 127
        /\ ret.type = "multicast" <=> a >= 224
        /\ ret.type = "public" <=>
              /\ a \notin {10, 127}
              /\ a < 224
              /\ ~(a = 172 /\ b \in 16..31)
              /\ ~(a = 192 /\ b = 168)

C20_Witness ==
    /\ ret.done
    /\ ret.found
    /\ arg.octets = <<192, 168, 1, 1>>
    /\ ret.type = "private_class_c"
    /\ ret.ip = <<"1", "9", "2", ".", "1", "6", "8", ".", "0", "0", "1", ".",
                  "0", "0", "1">>

\* the printable runs of buf that no printable byte precedes or follows
MaximalRuns(buf) ==
    {r \in (1..Len(buf)) \X (1..Len(buf)) :
        /\ r[1] <= r[2]
        /\ \A i \in r[1]..r[2] : buf[i] \in 32..126
        /\ r[1] = 1 \/ buf[r[1] - 1] \notin 32..126
        /\ r[2] = Len(buf) \/ buf[r[2] + 1] \notin 32..126}

\* C21: the ASCII pass returns the maximal runs of bytes in 0x20..0x7E that
\* are at least min_length long, each once and at its place, and nothing else.
C21_AsciiPassReturnsMaximalRuns ==
    ret.done =>
        /\ {<<ret.ascii_strings[j].start, ret.ascii_strings[j].str>> :
                j \in 1..Len(ret.ascii_strings)}
           = {<<r[1], SubSeq(arg.data, r[1], r[2])>> :
                r \in {q \in MaximalRuns(arg.data) :
                          q[2] - q[1] + 1 >= arg.min_length}}
        /\ \A j, k \in 1..Len(ret.ascii_strings) :
              ret.ascii_strings[j].start = ret.ascii_strings[k].start => j = k

C21_Witness ==
    /\ ret.done
    /\ arg.min_length = 2
    /\ arg.data = <<32, 126, 0, 126, 32>>
    /\ Len(ret.ascii_strings) = 2
    /\ ret.ascii_strings[1].str = <<32, 126>>

\* a (printable byte, zero byte) pair at i
WidePairAt(buf, i) ==
    /\ 1 <= i
    /\ i + 1 <= Len(buf)
    /\ buf[i] \in 32..126
    /\ buf[i + 1] = 0

\* C22: every string the wide pass returns is at least min_length long and
\* is the printable bytes of a run of (printable, zero) pairs in the buffer
\* that begins at the match, has one pair per character, and has no further
\* pair right before it or right behind it.
C22_WidePassReturnsPairRuns ==
    ret.done =>
        \A j \in 1..Len(ret.unicode_strings) :
            LET s == ret.unicode_strings[j].start
                str == ret.unicode_strings[j].str
            IN /\ Len(str) >= arg.min_length
               /\ \A k \in 1..Len(str) :
                     /\ WidePairAt(arg.data, s + 2 * (k - 1))
                     /\ str[k] = arg.data[s + 2 * (k - 1)]
               /\ ~WidePairAt(arg.data, s - 2)
               /\ ~WidePairAt(arg.data, s + 2 * Len(str))

C22_Witness ==
    /\ ret.done
    /\ arg.min_length = 2
    /\ arg.data = <<65, 65, 0, 126, 0, 0, 0>>
    /\ Len(ret.unicode_strings) = 1
    /\ ret.unicode_strings[1] = [start |-> 2, str |-> <<65, 126>>]

\* the first category, in the order of the pattern table, with a pattern
\* that is found in the string
EarliestMatch(str) ==
    CHOOSE k \in 1..Len(PatternCategories) :
        /\ Matches(PatternCategories[k], str)
        /\ \A h \in 1..(k - 1) : ~Matches(PatternCategories[h], str)

MatchesSome(str) == \E k \in 1..Len(PatternCategories) : Matches(PatternCategories[k], str)

RECURSIVE EarliestOf(_)
EarliestOf(strings) ==
    IF strings = <<>> THEN <<>>
    ELSE IF Len(strings) = 1
    THEN <<IF MatchesSome(strings[1]) THEN EarliestMatch(strings[1]) ELSE 0>>
    ELSE EarliestOf(SubSeq(strings, 1, Len(strings) \div 2))
            \o EarliestOf(SubSeq(strings, Len(strings) \div 2 + 1, Len(strings)))

\* the first place in the list of the string at place j
FirstPlace(strings, j) ==
    CHOOSE p \in 1..j : strings[p] = strings[j] /\ \A q \in 1..(p - 1) : strings[q] # strings[j]

\* the different strings of four characters or more, before place j, that
\* the category of the string at place j takes
PlacedBefore(strings, earliest, j) ==
    {strings[q] : q \in {p \in 1..(j - 1) :
        Len(strings[p]) >= 4 /\ earliest[p] = earliest[j]}}

C25_EarliestCategoryOnly ==
    ret.done =>
        \A c \in Categories :
            \A k \in 1..Len(ret.categories[c]) :
                LET str == ret.categories[c][k]
                IN /\ \A d \in Categories :
                         \A h \in 1..Len(ret.categories[d]) :
                             ret.categories[d][h] = str => d = c /\ h = k
                   /\ IF MatchesSome(str)
                      THEN c = PatternCategories[EarliestMatch(str)]
                      ELSE c = "interesting"

C25_Witness ==
    /\ ret.done
    /\ arg.strings = <<<<"C", ":", "\\", "a", ".", "d", "l", "l">>, <<"C", "M", "D", ".", "E", "X", "E">>, <<"C", ":", "\\", "a", ".", "d", "l", "l">>>>
    /\ Matches("dll_names", arg.strings[1])
    /\ Matches("commands", arg.strings[2])
    /\ ret.categories["file_paths"] = <<arg.strings[1]>>
    /\ ret.categories["dll_names"] = <<arg.strings[2]>>
    /\ ret.categories["commands"] = <<>>

\* the hits the text has: every place where a persistence location is
\* written, in any case
HitsOf(str) ==
    LET low == LowerCase(str)
    IN UNION {LET key == LowerCase(persistence_keys[k])
              IN {<<k, i>> : i \in {p \in 1..Len(str) : LitAt(low, p, key)}} :
                 k \in 1..Len(persistence_keys)}

\* a high risk word in the 100 characters before the location at place i and
\* the 200 characters behind it
WordNear(str, k, i) ==
    LET from == Max(1, i - 100)
        to == Min(Len(str), i + Len(persistence_keys[k]) - 1 + 200)
        window == LowerCase(SubSeq(str, from, to))
    IN \E indicator \in high_risk_indicators :
          \E p \in 1..Len(window) : LitAt(window, p, indicator)

\* the risk level of the rules: the locations 9 and 10 are AppInit_DLLs and
\* Image File Execution Options, 1 to 3 the Run family
RiskByRules(str, k, i) ==
    IF WordNear(str, k, i) \/ k \in {9, 10} THEN "high"
    ELSE IF k \in {1, 2, 3} THEN "medium"
    ELSE "low"

\* C24: every place of the text where a persistence location is written is
\* reported as a hit with the risk level of the rules (high for a high risk
\* word in its context or AppInit_DLLs or Image File Execution Options,
\* medium for a Run location, low otherwise), and a Run location is reported
\* with the type startup.
C24_RiskByRules ==
    ret.done =>
        \A hit \in HitsOf(arg.text) :
            /\ ret.err = NoExc
            /\ \E h \in 1..Len(ret.persistence_mechanisms) :
                  LET found == ret.persistence_mechanisms[h]
                  IN /\ found.location = hit[1]
                     /\ found.offset = hit[2] - 1
                     /\ found.risk_level = RiskByRules(arg.text, hit[1], hit[2])
                     /\ hit[1] \in {1, 2, 3} => found.type = "startup"

\* the analysis of a text returns, and every hit it reports has the risk
\* level of the rules
ReportedRiskByRules ==
    ret.done /\ ret.err = NoExc =>
        \A h \in 1..Len(ret.persistence_mechanisms) :
            LET found == ret.persistence_mechanisms[h]
            IN /\ <<found.location, found.offset + 1>> \in HitsOf(arg.text)
               /\ found.risk_level = RiskByRules(arg.text, found.location, found.offset + 1)

\* C26: the list of URLs returned for a text has no URL twice and at most
\* 100 entries.
C26_ListsWithoutRepeatsUnderCap ==
    ret.done =>
        /\ Len(ret.urls) <= 100
        /\ \A j, k \in 1..Len(ret.urls) :
              ret.urls[j].url = ret.urls[k].url => j = k

\* C27: the list of processes recovered from a Windows dump has no name
\* twice, and the summary counts as many processes as different names.
C27_NoNameTwice ==
    ret.pc = "done" =>
        /\ \A j, k \in 1..Len(ret.processes) :
              ret.processes[j] = ret.processes[k] => j = k
        /\ ret.summary.total_processes = ret.summary.unique_names

\* C30: when the scan has ended, every place of the pool tag in the file has
\* been handed to _parse_eprocess, and once only.
C30_EachTagHandedOnce ==
    ret.pc = "done" =>
        \A p \in arg.marks :
            Cardinality({k \in 1..Len(ret.handed) : ret.handed[k] = p}) = 1

\* a number followed by one of the suffixes B, KB, MB, GB, TB, or by none,
\* in any letter case and with blanks around it
SuffixedSize(size_str) ==
    LET str == Strip([i \in 1..Len(size_str) |-> Upper(size_str[i])])
    IN \E suffix \in {<<>>, <<"B">>, <<"K", "B">>, <<"M", "B">>, <<"G", "B">>,
                      <<"T", "B">>} :
          /\ EndsWith(str, suffix)
          /\ Len(str) > Len(suffix)
          /\ \A i \in 1..(Len(str) - Len(suffix)) : str[i] \in DOMAIN DigitValue

\* C28: a max_file_size and an mmap_threshold that are a number with one of
\* the suffixes B, KB, MB, GB, TB, or digits alone, are converted: neither the
\* constructor nor the setup fails on converting them.
C28_SuffixedSizesParse ==
    /\ ret.stage # "new" /\ SuffixedSize(arg.max_file_size) =>
          ret.stage # "rejected" \/ ret.err.msg = "Dump file too large"
    /\ ret.stage \in {"parsed", "raised"} /\ SuffixedSize(arg.max_file_size)
            /\ SuffixedSize(arg.mmap_threshold) =>
          ret.stage = "parsed"

\* the calls so far register the plugin, and its last enable_plugin call has
\* no disable_plugin call behind it
EnabledByCalls(name) ==
    /\ \E i \in 1..Len(arg) : arg[i] = [op |-> "register_plugin", name |-> name]
    /\ \E i \in 1..Len(arg) :
          /\ arg[i] = [op |-> "enable_plugin", name |-> name]
          /\ \A j \in (i + 1)..Len(arg) :
                arg[j] # [op |-> "disable_plugin", name |-> name]

\* C29: what get_enabled_plugins has just returned, and run_analysis has just
\* run, are the plugins that are registered and whose last enable_plugin
\* call has no disable_plugin call behind it, each of them once.
C29_EnabledIffLastEnableStands ==
    ret.last \in {"get_enabled_plugins", "run_analysis"} =>
        \A name \in ManagerNames :
            /\ (\E k \in 1..Len(ret.returned) : ret.returned[k] = name)
                  <=> EnabledByCalls(name)
            /\ Cardinality({k \in 1..Len(ret.returned) : ret.returned[k] = name}) <= 1
            /\ ret.last = "run_analysis" =>
                  /\ Cardinality({k \in 1..Len(ret.ran) : ret.ran[k] = name}) <= 1
                  /\ name \in DOMAIN ret.results <=> EnabledByCalls(name)

====
